---- MODULE Spec2Model ----
(***************************************************************************)
(* The encrypted store of xmtp_mls: the groups table and its operations    *)
(* (storage/encrypted_store/group.rs) and the transaction coordinator      *)
(* (storage/encrypted_store/mod.rs, ProviderTransactions), over an         *)
(* embedded single-writer SQL engine reached through connections that are  *)
(* reference-counted, mutex-guarded handles.                               *)
(***************************************************************************)
EXTENDS Integers, Sequences, FiniteSets, TLC

(***************************************************************************)
(* Bounds of the model.                                                    *)
(***************************************************************************)
\* statements executed in one run
MaxOps == 2
\* coordinator calls made in one run
MaxCalls == 2
\* coordinator calls one task has open at once (work calling transaction)
MaxNest == 2
\* failures of BEGIN / COMMIT / ROLLBACK the engine reports in one run
MaxFaults == 1
\* re-runs a retry policy allows
MaxRetries == 1
\* group ids of the tables the queries and updates run on
MaxRows == 3
\* items of a Vec given to store
MaxItems == 3

(***************************************************************************)
(* Values.                                                                 *)
(***************************************************************************)
\* Option<T>: None is the empty sequence, Some(x) the one-element sequence.
None == << >>
Some(x) == << x >>

\* enum GroupMembershipState (repr i32)
Allowed == 1
Rejected == 2
Pending == 3

\* enum Purpose (repr i32)
Conversation == 1
Sync == 2

Tasks == {"t1", "t2"}
Conns == {"c1", "c2"}
NoConn == "none"
GroupIds == {1, 2}
WelcomeIds == {7}

\* struct StoredGroup
StoredGroup(id, created_at_ns, membership_state, installations_last_checked, purpose, added_by_inbox_id, welcome_id, dm_inbox_id) ==
    [id |-> id,
     created_at_ns |-> created_at_ns,
     membership_state |-> membership_state,
     installations_last_checked |-> installations_last_checked,
     purpose |-> purpose,
     added_by_inbox_id |-> added_by_inbox_id,
     welcome_id |-> welcome_id,
     dm_inbox_id |-> dm_inbox_id]

\* StoredGroup::new_from_welcome
new_from_welcome(id, created_at_ns, membership_state, added_by_inbox_id, welcome_id, purpose, dm_inbox_id) ==
    StoredGroup(id, created_at_ns, membership_state, 0, purpose,
                added_by_inbox_id, Some(welcome_id), dm_inbox_id)

\* StoredGroup::new
new(id, created_at_ns, membership_state, added_by_inbox_id, dm_inbox_id) ==
    StoredGroup(id, created_at_ns, membership_state, 0, Conversation,
                added_by_inbox_id, None, dm_inbox_id)

\* StoredGroup::new_sync_group
new_sync_group(id, created_at_ns, membership_state) ==
    StoredGroup(id, created_at_ns, membership_state, 0, Sync, "", None, None)

\* the groups the callers try to write
Candidates ==
    { new(g, 0, Allowed, "inbox", None) : g \in GroupIds }
    \cup
    { new_from_welcome(1, 0, m, "inbox", w, Conversation, None) :
        m \in {Allowed, Pending}, w \in WelcomeIds }

\* StorageError / diesel::result::Error values
Error(kind) == [kind |-> kind, item |-> None]
NoError == Error("")
\* StorageError::Duplicate(DuplicateItem::WelcomeId(welcome_id))
Duplicate(welcome_id) == [kind |-> "Duplicate", item |-> Some(welcome_id)]
\* diesel: UNIQUE constraint failed (DatabaseError(UniqueViolation))
UniqueViolation == Error("UniqueViolation")
\* diesel: database is locked
Locked == Error("Locked")
\* diesel::result::Error::BrokenTransactionManager
BrokenTransactionManager == Error("BrokenTransactionManager")
\* diesel::result::Error::NotInTransaction
NotInTransaction == Error("NotInTransaction")
\* any other failure of the engine's BEGIN / COMMIT / ROLLBACK
BeginFailed == Error("BeginFailed")
CommitFailed == Error("CommitFailed")
RollbackFailed == Error("RollbackFailed")
\* the caller's own failure of a work closure (anyhow::bail! in the tests)
\* StorageError::NotFound
NotFound == Error("NotFound")
\* diesel::result::Error::DeserializationError
DeserializationError == Error("DeserializationError")
WorkError == Error("WorkError")

\* Result<Option<StoredGroup>, E>
Ok(v) == [ok |-> TRUE, val |-> v, err |-> NoError]
Err(e) == [ok |-> FALSE, val |-> None, err |-> e]

VARIABLES
    db,        \* the committed groups table: a set of StoredGroup rows
    writer,    \* the connection holding the engine's write lock, or NoConn
    pending,   \* the writer's uncommitted groups table
    saves,     \* per connection: the transaction manager's stack of levels
    connOf,    \* per task: the connection its handle refers to
    frames,    \* per task: its open coordinator calls, innermost last
    nops,      \* statements executed
    ncalls,    \* coordinator calls begun
    broken,    \* the connections whose transaction manager is broken
    faults,    \* engine failures reported so far
    retry,     \* per task: its call of retryable_transaction_async
    file,      \* the backing file of the persistent store
    stores,    \* per task: the EncryptedMessageStore it holds, if any
    readback,  \* per task: the candidate of its insert_or_replace_group call
               \* whose insert found a conflict and that has yet to read back
    storing,   \* per task: the Vec it is storing and the item that is next
    last       \* the step just taken and what it returned

vars == << db, writer, pending, saves, connOf, frames, nops, ncalls,
           broken, faults, retry, file, stores, readback, storing,
           last >>

(***************************************************************************)
(* The groups table: queries and statements on a table (a set of rows).    *)
(***************************************************************************)
\* dsl::groups.find(id): the rows whose primary key is id
find(tbl, id) == { r \in tbl : r.id = id }

\* order(created_at_ns.asc()) then the first row: Option<StoredGroup>
first(rows) ==
    IF rows = {} THEN None
    ELSE Some(CHOOSE r \in rows :
                \A q \in rows : r.created_at_ns <= q.created_at_ns)

\* an insert into a table that has no primary key
insert_into_unchecked(tbl, group) == [ok |-> TRUE, tbl |-> tbl \cup {group}]

\* INSERT INTO groups: refused when the primary key is taken
insert_into(tbl, group) ==
    IF find(tbl, group.id) # {}
    THEN [ok |-> FALSE, tbl |-> tbl]
    ELSE [ok |-> TRUE, tbl |-> tbl \cup {group}]

\* DbConnection::find_group
find_group(tbl, id) == first(find(tbl, id))

\* FromSql for GroupMembershipState: the enum of a stored integer
GroupMembershipState_from_sql(x) ==
    IF x = 1 THEN Ok(Allowed)
    ELSE IF x = 2 THEN Ok(Rejected)
    ELSE IF x = 3 THEN Ok(Pending)
    ELSE Err(DeserializationError)

\* FromSql for Purpose
Purpose_from_sql(x) ==
    IF x = 1 THEN Ok(Conversation)
    ELSE IF x = 2 THEN Ok(Sync)
    ELSE Err(DeserializationError)

\* Queryable for StoredGroup: the entity of a stored row
build(row) ==
    LET membership_state == GroupMembershipState_from_sql(row.membership_state)
        purpose == Purpose_from_sql(row.purpose)
    IN  IF ~membership_state.ok THEN membership_state
        ELSE IF ~purpose.ok THEN purpose
        ELSE Ok(Some([row EXCEPT !.membership_state = membership_state.val,
                                 !.purpose = purpose.val]))

\* impl_fetch!(StoredGroup, groups, Vec<u8>): Fetch::fetch,
\* groups.find(key).first(conn).optional()
fetch(tbl, key) ==
    LET row == first(find(tbl, key))
    IN  IF row = None THEN Ok(None) ELSE build(row[1])

\* dsl::groups.order(created_at_ns.asc()).into_boxed(): a boxed SELECT with
\* an empty WHERE clause and no LIMIT clause
into_boxed ==
    [membership_state |-> None, created_after |-> None,
     created_before |-> None, dm_is_null |-> FALSE, purpose |-> None,
     limit |-> None]

\* a purpose condition that is dropped
filter_purpose_dropped(query, purpose) == query

\* a DM condition that is dropped
filter_dm_is_null_dropped(query) == query

\* query.filter(..): the predicate is added to the WHERE clause
filter_membership_state(query, states) ==
    [query EXCEPT !.membership_state = Some(states)]

filter_created_after(query, ns) == [query EXCEPT !.created_after = Some(ns)]

filter_created_before(query, ns) == [query EXCEPT !.created_before = Some(ns)]

filter_dm_is_null(query) == [query EXCEPT !.dm_is_null = TRUE]

filter_purpose(query, purpose) == [query EXCEPT !.purpose = Some(purpose)]

\* query.limit(n): sets the LIMIT clause
limit_query(query, n) == [query EXCEPT !.limit = Some(n)]

\* a WHERE clause that does not look at the purpose
where_any_purpose(query, r) ==
    /\ query.membership_state # None =>
            r.membership_state \in query.membership_state[1]
    /\ query.created_after # None => r.created_at_ns > query.created_after[1]
    /\ query.created_before # None => r.created_at_ns < query.created_before[1]
    /\ query.dm_is_null => r.dm_inbox_id = None

\* the WHERE clause of a boxed query on one row
where(query, r) ==
    /\ query.membership_state # None =>
            r.membership_state \in query.membership_state[1]
    /\ query.created_after # None => r.created_at_ns > query.created_after[1]
    /\ query.created_before # None => r.created_at_ns < query.created_before[1]
    /\ query.dm_is_null => r.dm_inbox_id = None
    /\ query.purpose # None => r.purpose = query.purpose[1]

\* ORDER BY created_at_ns ASC of a set of rows
RECURSIVE order_asc(_)
order_asc(rows) ==
    IF rows = {} THEN << >>
    ELSE LET r == CHOOSE x \in rows :
                    \A y \in rows : x.created_at_ns <= y.created_at_ns
         IN  << r >> \o order_asc(rows \ {r})

\* LIMIT n of a sequence of rows
take(rows, n) == SubSeq(rows, 1, IF n < Len(rows) THEN n ELSE Len(rows))

\* query.load(conn): SELECT .. WHERE .. ORDER BY .. LIMIT ..
load(query, tbl) ==
    LET rows == order_asc({ r \in tbl : where(query, r) })
    IN  IF query.limit = None THEN rows ELSE take(rows, query.limit[1])

\* the statements of find_groups run one after the other on the rows: the
\* limit cuts the rows before the DM and purpose conditions are applied
find_groups_in_statement_order(tbl, allowed_states, created_after_ns, created_before_ns, limit, include_dm_groups) ==
    LET q0 == into_boxed
        q1 == IF allowed_states # None
              THEN filter_membership_state(q0, allowed_states[1]) ELSE q0
        q2 == IF created_after_ns # None
              THEN filter_created_after(q1, created_after_ns[1]) ELSE q1
        q3 == IF created_before_ns # None
              THEN filter_created_before(q2, created_before_ns[1]) ELSE q2
        q4 == IF limit # None THEN limit_query(q3, limit[1]) ELSE q3
        cut == load(q4, tbl)
    IN  Ok(SelectSeq(cut, LAMBDA r :
            /\ include_dm_groups \/ r.dm_inbox_id = None
            /\ r.purpose = Conversation))

\* DbConnection::find_groups
find_groups(tbl, allowed_states, created_after_ns, created_before_ns, limit, include_dm_groups) ==
    LET q0 == into_boxed
        q1 == IF allowed_states # None
              THEN filter_membership_state(q0, allowed_states[1]) ELSE q0
        q2 == IF created_after_ns # None
              THEN filter_created_after(q1, created_after_ns[1]) ELSE q1
        q3 == IF created_before_ns # None
              THEN filter_created_before(q2, created_before_ns[1]) ELSE q2
        q4 == IF limit # None THEN limit_query(q3, limit[1]) ELSE q3
        q5 == IF ~include_dm_groups THEN filter_dm_is_null(q4) ELSE q4
        query == filter_purpose(q5, Conversation)
    IN  Ok(load(query, tbl))

\* DbConnection::find_sync_groups
find_sync_groups(tbl) ==
    LET query == filter_purpose(into_boxed, Sync)
    IN  Ok(load(query, tbl))

\* a lookup that hands back the row created last
find_group_by_welcome_id_latest(tbl, welcome_id) ==
    LET groups == order_asc({ r \in tbl : r.welcome_id = Some(welcome_id) })
    IN  Ok(IF groups = << >> THEN None ELSE Some(groups[Len(groups)]))

\* DbConnection::find_group_by_welcome_id
find_group_by_welcome_id(tbl, welcome_id) ==
    LET groups == order_asc({ r \in tbl : r.welcome_id = Some(welcome_id) })
    IN  \* groups.into_iter().next()
        Ok(IF groups = << >> THEN None ELSE Some(groups[1]))

\* an update that sets the state of every row
update_group_membership_every_row(tbl, group_id, state) ==
    [res |-> Ok(None),
     tbl |-> { [r EXCEPT !.membership_state = state] : r \in tbl }]

\* DbConnection::update_group_membership
update_group_membership(tbl, group_id, state) ==
    [res |-> Ok(None),
     tbl |-> (tbl \ find(tbl, group_id)) \cup
             { [r EXCEPT !.membership_state = state] :
                    r \in find(tbl, group_id) }]

\* a lookup that answers 0 for a group that does not exist
get_installations_time_checked_or_zero(tbl, group_id) ==
    LET rows == find(tbl, group_id)
    IN  IF rows = {} THEN Ok(0)
        ELSE Ok((CHOOSE r \in rows : TRUE).installations_last_checked)

\* DbConnection::get_installations_time_checked
get_installations_time_checked(tbl, group_id) ==
    LET rows == find(tbl, group_id)
        \* .select(installations_last_checked).first(conn).optional()
        last_ts == IF rows = {} THEN None
                   ELSE Some((CHOOSE r \in rows : TRUE).installations_last_checked)
    IN  IF last_ts = None THEN Err(NotFound) ELSE Ok(last_ts[1])

\* an update that creates the group when the id has no row
update_installations_time_checked_upsert(tbl, group_id, now) ==
    [res |-> Ok(None),
     tbl |-> (tbl \ find(tbl, group_id)) \cup
             (IF find(tbl, group_id) = {}
              THEN { [new(group_id, 0, Allowed, "", None)
                        EXCEPT !.installations_last_checked = now] }
              ELSE { [r EXCEPT !.installations_last_checked = now] :
                        r \in find(tbl, group_id) })]

\* DbConnection::update_installations_time_checked, now_ns() reading now
update_installations_time_checked(tbl, group_id, now) ==
    [res |-> Ok(None),
     tbl |-> (tbl \ find(tbl, group_id)) \cup
             { [r EXCEPT !.installations_last_checked = now] :
                    r \in find(tbl, group_id) }]

\* a store that replaces the row of the same key (INSERT OR REPLACE)
store_replace(tbl, group) ==
    [res |-> Ok(None), tbl |-> (tbl \ find(tbl, group.id)) \cup {group}]

\* impl_store!(StoredGroup, groups): Store::store
store(tbl, group) ==
    LET ins == insert_into(tbl, group)
    IN  [res |-> IF ins.ok THEN Ok(None) ELSE Err(UniqueViolation),
         tbl |-> ins.tbl]

\* a store-or-ignore that fails on a conflict, as store does
store_or_ignore_strict(tbl, group) ==
    LET ins == insert_into(tbl, group)
    IN  [res |-> IF ins.ok THEN Ok(None) ELSE Err(UniqueViolation),
         tbl |-> ins.tbl]

\* impl_store_or_ignore!: StoreOrIgnore::store_or_ignore for the groups
\* table, INSERT OR IGNORE: a row in conflict is skipped and the statement
\* succeeds
store_or_ignore(tbl, group) ==
    LET ins == insert_into(tbl, group)
    IN  [res |-> Ok(None), tbl |-> ins.tbl]

\* insert-or-replace that replaces the stored row by the candidate
insert_or_replace_group_upsert(tbl, group) ==
    [res |-> Ok(Some(group)),
     tbl |-> (tbl \ find(tbl, group.id)) \cup {group}]

\* insert-or-replace that hands back the candidate when the welcome differs
insert_or_replace_group_candidate(tbl, group) ==
    LET ins == insert_into(tbl, group)
        existing_group == first(find(ins.tbl, group.id))[1]
    IN  [res |-> IF ~ins.ok /\ existing_group.welcome_id = group.welcome_id
                 THEN Err(Duplicate(existing_group.welcome_id))
                 ELSE Ok(Some(group)),
         tbl |-> ins.tbl]

\* insert-or-replace that compares welcome ids as SQL does: an absent
\* welcome_id equals nothing, not even another absent one
insert_or_replace_group_null_distinct(tbl, group) ==
    LET ins == insert_into(tbl, group)
        maybe_inserted_group == IF ins.ok THEN Some(group) ELSE None
        existing_group == first(find(ins.tbl, group.id))[1]
    IN  [res |-> IF maybe_inserted_group = None
                 THEN IF /\ existing_group.welcome_id # None
                         /\ existing_group.welcome_id = group.welcome_id
                      THEN Err(Duplicate(existing_group.welcome_id))
                      ELSE Ok(Some(existing_group))
                 ELSE Ok(maybe_inserted_group),
         tbl |-> ins.tbl]

\* DbConnection::insert_or_replace_group
insert_or_replace_group(tbl, group) ==
    LET ins == insert_into(tbl, group)
        \* insert_into(..).on_conflict_do_nothing().get_result(conn).optional()
        maybe_inserted_group == IF ins.ok THEN Some(group) ELSE None
        existing_group == first(find(ins.tbl, group.id))[1]
    IN  [res |-> IF maybe_inserted_group = None
                 THEN IF existing_group.welcome_id = group.welcome_id
                      THEN Err(Duplicate(existing_group.welcome_id))
                      ELSE Ok(Some(existing_group))
                 ELSE Ok(maybe_inserted_group),
         tbl |-> ins.tbl]

\* diesel::result::Error::NotFound: first() on a query without rows
RowNotFound == Error("RowNotFound")

\* an insert statement that replaces the row of the id (INSERT OR REPLACE)
insert_or_replace_group_insert_replacing(tbl, group) ==
    [maybe_inserted_group |-> Some(group),
     tbl |-> (tbl \ find(tbl, group.id)) \cup {group}]

\* insert_or_replace_group, its first statement:
\* insert_into(groups).values(&group).on_conflict_do_nothing()
\*     .get_result(conn).optional()
insert_or_replace_group_insert(tbl, group) ==
    LET ins == insert_into(tbl, group)
    IN  [maybe_inserted_group |-> IF ins.ok THEN Some(group) ELSE None,
         tbl |-> ins.tbl]

\* insert_or_replace_group, its second statement, run when nothing was
\* inserted: groups.find(group.id).first(conn)? and the comparison of the
\* welcome ids
insert_or_replace_group_read_back(tbl, group) ==
    LET existing_group == first(find(tbl, group.id))
    IN  IF existing_group = None THEN Err(RowNotFound)
        ELSE IF existing_group[1].welcome_id = group.welcome_id
        THEN Err(Duplicate(existing_group[1].welcome_id))
        ELSE Ok(existing_group)

(***************************************************************************)
(* The engine: one write lock for the store, a transaction manager per     *)
(* connection (BEGIN at depth 0, SAVEPOINT below).                         *)
(***************************************************************************)
\* what a statement on connection c reads
View(c) == IF writer = c THEN pending ELSE db

\* the transaction manager's depth on connection c
Depth(c) == Len(saves[c])

Front(s) == SubSeq(s, 1, Len(s) - 1)
Top(s) == s[Len(s)]

\* the engine after a step on one connection
Engine(res, d, w, p, s, b) ==
    [res |-> res, db |-> d, writer |-> w, pending |-> p, saves |-> s,
     broken |-> b]

\* TransactionManager::begin_transaction
begin_transaction(c, fault) ==
    IF c \in broken
    THEN Engine(Err(BrokenTransactionManager), db, writer, pending,
                saves[c], broken)
    ELSE IF fault # "none"
    THEN Engine(Err(BeginFailed), db, writer, pending, saves[c], broken)
    ELSE Engine(Ok(None), db, writer, pending,
                Append(saves[c], IF writer = c THEN Some(pending) ELSE None),
                broken)

\* TransactionManager::commit_transaction
commit_transaction(c, fault) ==
    IF c \in broken
    THEN Engine(Err(BrokenTransactionManager), db, writer, pending,
                saves[c], broken)
    ELSE IF Depth(c) = 0
    THEN Engine(Err(NotInTransaction), db, writer, pending, saves[c], broken)
    ELSE IF fault # "none"
    THEN Engine(Err(CommitFailed), db, writer, pending, saves[c], broken)
    ELSE IF Depth(c) = 1
    THEN Engine(Ok(None), View(c),
                IF writer = c THEN NoConn ELSE writer,
                IF writer = c THEN {} ELSE pending,
                << >>, broken)
    ELSE Engine(Ok(None), db, writer, pending, Front(saves[c]), broken)

\* TransactionManager::rollback_transaction
rollback_transaction(c, fault) ==
    IF c \in broken
    THEN Engine(Err(BrokenTransactionManager), db, writer, pending,
                saves[c], broken)
    ELSE IF Depth(c) = 0
    THEN Engine(Err(NotInTransaction), db, writer, pending, saves[c], broken)
    ELSE IF fault # "none"
    THEN \* the engine has given the transaction up: nothing of it is kept
         Engine(Err(IF fault = "broken" THEN BrokenTransactionManager
                                        ELSE RollbackFailed),
                db,
                IF writer = c THEN NoConn ELSE writer,
                IF writer = c THEN {} ELSE pending,
                << >>, broken \cup {c})
    ELSE IF Depth(c) = 1
    THEN Engine(Ok(None), db,
                IF writer = c THEN NoConn ELSE writer,
                IF writer = c THEN {} ELSE pending,
                << >>, broken)
    ELSE Engine(Ok(None), db, writer,
                IF writer = c
                THEN (IF Top(saves[c]) = None THEN db ELSE Top(saves[c])[1])
                ELSE pending,
                Front(saves[c]), broken)

(***************************************************************************)
(* The transaction coordinator.                                            *)
(***************************************************************************)
\* An open coordinator call: which variant, what its work closure returned
\* (None while it runs), and the rows the closure has inserted so far.
Frame(kind, result, ins) == [kind |-> kind, result |-> result, ins |-> ins]

\* what a handle refers to: DbConnectionPrivate { inner: Arc<Mutex<C>> }
conn_ref(t) == connOf[t]
inner_ref(c) == c
from_arc_mutex(arc) == arc

\* the other tasks holding a handle to connection c
OtherHolders(t, c) == { u \in Tasks \ {t} : conn_ref(u) = c }

\* the task is running caller code: outside any work closure (and not
\* waiting between two attempts of a retried call), or inside a closure that
\* has not returned
Running(t) ==
    IF frames[t] = << >> THEN ~retry[t].active
    ELSE Top(frames[t]).result = None

\* Retry policy and loop of retry_async!: the state of one retried call
\* (retries the policy allows, re-runs granted, attempts started, the
\* result of the last attempt)
Retry(retries) ==
    [active |-> TRUE, retries |-> retries, attempts |-> 0, runs |-> 0,
     res |-> None]
NoRetry == [Retry(0) EXCEPT !.active = FALSE]

\* RetryableError::is_retryable: the locked / busy error is transient
is_retryable(e) == e = Locked

\* a retry loop that runs again after every error
retry_async_any_error(r, res) ==
    IF ~res.ok /\ r.attempts < r.retries
    THEN [r EXCEPT !.attempts = @ + 1, !.res = Some(res)]
    ELSE [r EXCEPT !.active = FALSE, !.res = Some(res)]

\* retry_async!: what the loop does with the result of an attempt
retry_async(r, res) ==
    IF ~res.ok /\ is_retryable(res.err) /\ r.attempts < r.retries
    THEN [r EXCEPT !.attempts = @ + 1, !.res = Some(res)]
    ELSE [r EXCEPT !.active = FALSE, !.res = Some(res)]

\* the record of a step
Step(op, t, arg, res) ==
    [op |-> op, t |-> t, arg |-> arg, res |-> res, work |-> None,
     issued |-> "none", engine |-> Ok(None), ins |-> {}, others |-> {},
     calls |-> << >>]

\* a coordinator that calls fun whatever begin_transaction answers
transaction_begin_ignoring_error(t, fault) ==
    LET connection == conn_ref(t)
        e == begin_transaction(connection, fault)
    IN  [conn |-> connection, engine |-> [e EXCEPT !.res = Ok(None)]]

\* transaction up to the call of fun: begin_transaction on the guarded
\* connection; the guard is dropped at the end of the block
transaction_begin(t, fault) ==
    LET connection == conn_ref(t)
    IN  [conn |-> connection, engine |-> begin_transaction(connection, fault)]

\* transaction_async up to the call of fun
transaction_async_begin(t, fault) ==
    LET connection == conn_ref(t)
    IN  [conn |-> connection, engine |-> begin_transaction(connection, fault)]

\* a coordinator that keeps the error of work whatever the rollback answers
transaction_result_keeps_error(result, engine) ==
    IF result.ok
    THEN IF engine.ok THEN result ELSE Err(engine.err)
    ELSE result

\* what the coordinator returns once the engine has answered:
\* transaction, the match on fun(self)
transaction_result(result, engine) ==
    IF result.ok
    THEN IF engine.ok THEN result ELSE Err(engine.err)
    ELSE IF engine.ok THEN result
         ELSE IF engine.err = BrokenTransactionManager THEN result
         ELSE Err(engine.err)

\* transaction: from the return of fun(self) on
transaction(t, result, fault) ==
    LET conn == conn_ref(t)
        e == IF result.ok THEN commit_transaction(conn, fault)
                          ELSE rollback_transaction(conn, fault)
    IN  [ret |-> transaction_result(result, e.res),
         work |-> result,
         issued |-> IF result.ok THEN "commit" ELSE "rollback",
         conn |-> conn,
         engine |-> e]

\* a coordinator that reports every failure of the rollback
transaction_result_reports_rollback(result, engine) ==
    IF engine.ok THEN result ELSE Err(engine.err)

\* what the async coordinator returns once the engine has answered:
\* transaction_async, the match on result
transaction_async_result(result, engine) ==
    IF result.ok
    THEN IF engine.ok THEN result ELSE Err(engine.err)
    ELSE IF engine.ok THEN result
         ELSE IF engine.err = BrokenTransactionManager THEN result
         ELSE Err(engine.err)

\* transaction_async: from the completion of fun(self).await on
transaction_async(t, result, fault) ==
    LET local_connection == from_arc_mutex(inner_ref(conn_ref(t)))
        e == IF result.ok THEN commit_transaction(local_connection, fault)
                          ELSE rollback_transaction(local_connection, fault)
    IN  [ret |-> transaction_async_result(result, e.res),
         work |-> result,
         issued |-> IF result.ok THEN "commit" ELSE "rollback",
         conn |-> local_connection,
         engine |-> e]

\* the caller's frames once a statement or a call has returned res to it:
\* with propagate the work closure returns the error at once (the ? operator)
Returned(fs, res, inserted, propagate) ==
    IF fs = << >> THEN fs
    ELSE [fs EXCEPT ![Len(fs)] =
            Frame(@.kind,
                  IF propagate THEN Some(Err(res.err)) ELSE None,
                  @.ins \cup inserted)]

\* transaction / transaction_async up to the call of fun: begin_transaction
\* under the connection's mutex, which is released before fun runs
TransactionBegin(t, kind, fault, propagate) ==
    LET call == IF kind = "transaction" THEN transaction_begin(t, fault)
                ELSE transaction_async_begin(t, fault)
        c == call.conn
        e == call.engine
    IN  /\ Running(t)
        /\ Len(frames[t]) < MaxNest
        /\ ncalls < MaxCalls
        /\ fault # "none" => faults < MaxFaults /\ c \notin broken
        /\ propagate => ~e.res.ok /\ frames[t] # << >>
        /\ saves' = [saves EXCEPT ![c] = e.saves]
        /\ frames' = [frames EXCEPT ![t] =
                IF e.res.ok THEN Append(@, Frame(kind, None, {}))
                ELSE Returned(@, e.res, {}, propagate)]
        /\ ncalls' = ncalls + 1
        /\ faults' = IF fault # "none" THEN faults + 1 ELSE faults
        /\ last' = IF e.res.ok THEN Step("begin", t, None, e.res)
                   ELSE Step(kind, t, None, e.res)
        /\ UNCHANGED << db, writer, pending, connOf, readback, storing, file, stores, nops,
                        broken, retry >>

\* the rest of a coordinator call: the work closure has returned `result`
\* and the coordinator commits or rolls back
End(t, call, propagate, fault) ==
    LET f == Top(frames[t])
        rest == Front(frames[t])
        e == call.engine
        kept == IF call.ret.ok THEN f.ins ELSE {}
    IN  /\ propagate => ~call.ret.ok /\ rest # << >>
        /\ fault # "none" =>
                /\ faults < MaxFaults
                /\ call.conn \notin broken
                /\ Depth(call.conn) > 0
        /\ db' = e.db
        /\ writer' = e.writer
        /\ pending' = e.pending
        /\ saves' = [saves EXCEPT ![call.conn] = e.saves]
        /\ broken' = e.broken
        /\ frames' = [frames EXCEPT ![t] =
                            Returned(rest, call.ret, kept, propagate)]
        /\ faults' = IF fault # "none" THEN faults + 1 ELSE faults
        /\ last' = [Step(f.kind, t, None, call.ret) EXCEPT
                        !.work = Some(call.work),
                        !.issued = call.issued,
                        !.engine = e.res,
                        !.ins = f.ins,
                        !.others = OtherHolders(t, call.conn)]
        /\ retry' = IF retry[t].active /\ rest = << >>
                    THEN [retry EXCEPT ![t] = retry_async(@, call.ret)]
                    ELSE retry
        /\ UNCHANGED << connOf, readback, storing, file, stores, nops, ncalls >>

\* the result of the work closure that now returns: the error a statement
\* propagated, or Ok / the closure's own error
WorkResults(t) ==
    IF Top(frames[t]).result # None THEN { Top(frames[t]).result[1] }
    ELSE { Ok(None), Err(WorkError) }

TransactionEnd(t, propagate, fault) ==
    /\ frames[t] # << >>
    /\ Top(frames[t]).kind = "transaction"
    /\ \E result \in WorkResults(t) :
         /\ fault = "broken" => ~result.ok
         /\ End(t, transaction(t, result, fault), propagate, fault)

TransactionAsyncEnd(t, propagate, fault) ==
    /\ frames[t] # << >>
    /\ Top(frames[t]).kind = "transaction_async"
    /\ \E result \in WorkResults(t) :
         /\ fault = "broken" => ~result.ok
         /\ End(t, transaction_async(t, result, fault), propagate, fault)

(***************************************************************************)
(* Statements on a connection (DbConnection::raw_query: the closure runs   *)
(* under the connection's mutex, so a statement is one step).              *)
(***************************************************************************)
\* an attempt of a retried call: transaction_async up to the call of fun;
\* when begin fails the attempt is over and the loop decides
RetryAttempt(t, r, fault) ==
    LET call == transaction_async_begin(t, fault)
        c == call.conn
        e == call.engine
        started == [r EXCEPT !.runs = @ + 1]
    IN  /\ frames[t] = << >>
        /\ fault # "none" => faults < MaxFaults /\ c \notin broken
        /\ saves' = [saves EXCEPT ![c] = e.saves]
        /\ frames' = [frames EXCEPT ![t] =
                IF e.res.ok THEN << Frame("transaction_async", None, {}) >>
                ELSE << >>]
        /\ retry' = [retry EXCEPT ![t] =
                IF e.res.ok THEN started ELSE retry_async(started, e.res)]
        /\ faults' = IF fault # "none" THEN faults + 1 ELSE faults
        /\ last' = IF e.res.ok THEN Step("begin", t, None, e.res)
                   ELSE Step("transaction_async", t, None, e.res)
        /\ UNCHANGED << db, writer, pending, connOf, readback, storing, file, stores, nops,
                        broken >>

\* retryable_transaction_async(retry, fun): the first attempt
RetryableTransactionAsync(t, retries, fault) ==
    /\ retry[t] = NoRetry
    /\ ncalls < MaxCalls
    /\ RetryAttempt(t, Retry(retries), fault)
    /\ ncalls' = ncalls + 1

\* retryable_transaction_async: the loop runs the transaction again
RetryAgain(t, fault) ==
    /\ retry[t].active
    /\ RetryAttempt(t, retry[t], fault)
    /\ UNCHANGED ncalls

\* an engine without a write lock
write_lock_free_always(c) == TRUE

\* the engine lets connection c write: no other connection holds the lock
write_lock_free(c) == writer \in {c, NoConn}

\* A write statement of task t whose outcome on the table it reads is r =
\* [res, tbl]. The engine refuses it while another connection holds the
\* write lock; outside a transaction it commits at once.
Write(t, op, group, r, propagate) ==
    LET c == conn_ref(t)
        locked == ~write_lock_free(c)
        res == IF locked THEN Err(Locked) ELSE r.res
        tbl == IF locked THEN View(c) ELSE r.tbl
    IN  /\ Running(t)
        /\ nops < MaxOps
        /\ propagate => ~res.ok /\ frames[t] # << >>
        /\ IF locked THEN UNCHANGED << db, writer, pending >>
           ELSE IF Depth(c) = 0 /\ writer # c
           THEN db' = tbl /\ UNCHANGED << writer, pending >>
           ELSE writer' = c /\ pending' = tbl /\ UNCHANGED db
        /\ frames' = [frames EXCEPT ![t] =
                            Returned(@, res, tbl \ View(c), propagate)]
        /\ nops' = nops + 1
        /\ last' = Step(op, t, Some(group), res)
        /\ UNCHANGED << saves, connOf, readback, storing, file, stores, ncalls, broken, faults,
                        retry >>

\* group.store(conn)
Store(t, group, propagate) ==
    Write(t, "store", group, store(View(conn_ref(t)), group), propagate)

\* conn.insert_or_replace_group(group)
InsertOrReplaceGroup(t, group, propagate) ==
    Write(t, "insert_or_replace_group", group,
          insert_or_replace_group(View(conn_ref(t)), group), propagate)

\* items.store(conn) for a Vec: the store of the item that is next, a
\* statement of its own. The call returns the error of the item that fails
\* (the ? operator) or Ok after the last item.
StoreItem(t, items, at, propagate) ==
    LET c == conn_ref(t)
        locked == ~write_lock_free(c)
        r == store(View(c), items[at])
        res == IF locked THEN Err(Locked) ELSE r.res
        tbl == IF locked THEN View(c) ELSE r.tbl
        returns == ~res.ok \/ at = Len(items)
    IN  /\ propagate => ~res.ok /\ frames[t] # << >>
        /\ IF locked THEN UNCHANGED << db, writer, pending >>
           ELSE IF Depth(c) = 0 /\ writer # c
           THEN db' = tbl /\ UNCHANGED << writer, pending >>
           ELSE writer' = c /\ pending' = tbl /\ UNCHANGED db
        /\ frames' = [frames EXCEPT ![t] =
                            Returned(@, res, tbl \ View(c), propagate)]
        /\ storing' = [storing EXCEPT ![t] =
                            IF returns THEN None
                            ELSE Some([items |-> items, at |-> at + 1])]
        /\ last' = Step(IF returns THEN "store_vec" ELSE "store_item", t,
                        Some([items |-> items, at |-> at]), res)
        /\ UNCHANGED << saves, connOf, readback, file, stores, ncalls, broken,
                        faults, retry >>

\* items.store(conn): the call and its first item
StoreVec(t, items, propagate) ==
    /\ Running(t)
    /\ storing[t] = None
    /\ nops < MaxOps
    /\ nops' = nops + 1
    /\ StoreItem(t, items, 1, propagate)

\* items.store(conn): the next turn of the loop
StoreNext(t, propagate) ==
    /\ storing[t] # None
    /\ UNCHANGED nops
    /\ StoreItem(t, storing[t][1].items, storing[t][1].at, propagate)

\* DbConnection::raw_query holds the connection's mutex while its closure
\* runs: no other holder of t's connection is between two statements of one
\* closure
raw_query_free(t) == \A u \in OtherHolders(t, conn_ref(t)) : readback[u] = None

\* conn.insert_or_replace_group(group), the insert statement. The engine
\* refuses it while another connection holds the write lock; when it inserts,
\* the call returns the candidate; when the id is taken, the call goes on to
\* its read-back.
InsertOrReplaceGroupInsert(t, group, propagate) ==
    LET c == conn_ref(t)
        locked == ~write_lock_free(c)
        ins == insert_or_replace_group_insert(View(c), group)
        conflict == ~locked /\ ins.maybe_inserted_group = None
        res == IF locked THEN Err(Locked) ELSE Ok(ins.maybe_inserted_group)
        tbl == IF locked THEN View(c) ELSE ins.tbl
    IN  /\ Running(t)
        /\ readback[t] = None
        /\ raw_query_free(t)
        /\ nops < MaxOps
        /\ propagate => ~res.ok /\ frames[t] # << >>
        /\ IF locked THEN UNCHANGED << db, writer, pending >>
           ELSE IF Depth(c) = 0 /\ writer # c
           THEN db' = tbl /\ UNCHANGED << writer, pending >>
           ELSE writer' = c /\ pending' = tbl /\ UNCHANGED db
        /\ frames' = IF conflict THEN frames
                     ELSE [frames EXCEPT ![t] =
                            Returned(@, res, tbl \ View(c), propagate)]
        /\ readback' = [readback EXCEPT ![t] =
                            IF conflict THEN Some(group) ELSE None]
        /\ nops' = nops + 1
        /\ last' = Step(IF conflict THEN "insert"
                                    ELSE "insert_or_replace_group",
                        t, Some(group), res)
        /\ UNCHANGED << saves, connOf, storing, file, stores, ncalls, broken,
                        faults, retry >>

\* conn.insert_or_replace_group(group), the read-back of the row that made
\* the insert do nothing, and the return of the call
InsertOrReplaceGroupReadBack(t, propagate) ==
    LET c == conn_ref(t)
        group == readback[t][1]
        res == insert_or_replace_group_read_back(View(c), group)
    IN  /\ readback[t] # None
        /\ propagate => ~res.ok /\ frames[t] # << >>
        /\ frames' = [frames EXCEPT ![t] = Returned(@, res, {}, propagate)]
        /\ readback' = [readback EXCEPT ![t] = None]
        /\ last' = Step("insert_or_replace_group", t, Some(group), res)
        /\ UNCHANGED << db, writer, pending, saves, connOf, storing, file,
                        stores, nops, ncalls, broken, faults, retry >>

(***************************************************************************)
(* The backing file of a persistent store, its migrations, and the         *)
(* construction of a store on it.                                          *)
(***************************************************************************)
\* encryption keys and inbox ids
Keys == {"k1", "k2"}
InboxIds == {"inbox_id", "121212"}

\* StorageError::SqlCipherKeyIncorrect (the key mismatch), a failed
\* migration, a pool that was released
SqlCipherKeyIncorrect == Error("SqlCipherKeyIncorrect")
MigrationFailed == Error("MigrationFailed")
PoolNeedsConnection == Error("PoolNeedsConnection")
\* diesel::result::Error::DatabaseError: no such table, no such column
DatabaseError == Error("DatabaseError")

\* MIGRATIONS: the embedded migrations in the order of their versions. The
\* groups table gets the legacy column dm_inbox_id, later dm_id, derived
\* from dm_inbox_id and the local inbox id, with dm_inbox_id retired.
MIGRATIONS == << "create_tables", "add_dm_inbox_id", "dm_id", "add_last_message_ns" >>
Versions == 1..Len(MIGRATIONS)

\* The file: the key it was created with (None: no file yet), the versions
\* recorded as applied, in the order they were applied, the identity row,
\* and the rows of the groups table as far as the migrations touch them.
File(key, applied, identity, groups) == [key |-> key, applied |-> applied, identity |-> identity, groups |-> groups]
NoFile == File(None, << >>, None, {})
UpTo(n) == [v \in 1..n |-> v]
Migrated == File(Some("k1"), UpTo(Len(MIGRATIONS)), None, {})
Applied(f) == { f.applied[i] : i \in 1..Len(f.applied) }
GroupRow(id, dm_inbox_id, dm_id) == [id |-> id, dm_inbox_id |-> dm_inbox_id, dm_id |-> dm_id]

\* the migration of that name is applied to the file
Has(f, name) == \E v \in Applied(f) : MIGRATIONS[v] = name

\* the versions not yet applied, in ascending order
pending_migrations(f) == SelectSeq(UpTo(Len(MIGRATIONS)), LAMBDA v : v \notin Applied(f))

\* the migration "dm_id": new column dm_id, filled for the rows that have a
\* dm_inbox_id, then the legacy column is dropped
dm_id_up(f) ==
    { GroupRow(r.id, None,
               IF r.dm_inbox_id = None \/ f.identity = None THEN None
               ELSE Some("dm:" \o r.dm_inbox_id[1] \o ":" \o f.identity[1])) :
        r \in f.groups }

\* one migration, run in a transaction of its own with its version recorded
run_migration(f, v) ==
    [f EXCEPT !.applied = Append(@, v),
              !.groups = IF MIGRATIONS[v] = "dm_id" THEN dm_id_up(f) ELSE @]

\* MigrationHarness::run_next_migration; fail: the migration fails
run_next_migration(f, fail) ==
    LET todo == pending_migrations(f)
    IN  IF todo = << >> \/ fail THEN [res |-> Err(MigrationFailed), file |-> f]
        ELSE [res |-> Ok(None), file |-> run_migration(f, todo[1])]

\* a harness that runs every migration, applied or not
RECURSIVE run_from(_, _, _)
run_from(f, v, fail_at) ==
    IF v > Len(MIGRATIONS) THEN [res |-> Ok(None), file |-> f]
    ELSE IF v = fail_at THEN [res |-> Err(MigrationFailed), file |-> f]
    ELSE run_from(run_migration(f, v), v + 1, fail_at)

run_all_migrations(f, fail_at) == run_from(f, 1, fail_at)

\* MigrationHarness::run_pending_migrations(MIGRATIONS): the pending
\* migrations one after the other; fail_at: the version whose migration
\* fails (0: none)
RECURSIVE run_pending_migrations(_, _)
run_pending_migrations(f, fail_at) ==
    LET todo == pending_migrations(f)
    IN  IF todo = << >> THEN [res |-> Ok(None), file |-> f]
        ELSE IF todo[1] = fail_at
        THEN [res |-> Err(MigrationFailed), file |-> f]
        ELSE run_pending_migrations(run_migration(f, todo[1]), fail_at)

\* NativeDb::new(&opts, enc_key) for Persistent(path): the pool on the
\* file, which is created with the key when it does not exist
NativeDb_new(f, enc_key) ==
    [res |-> Ok([enc_key |-> enc_key, pool |-> TRUE, reopened |-> FALSE]),
     file |-> IF f.key = None THEN [f EXCEPT !.key = Some(enc_key)] ELSE f]

\* XmtpDb::validate of the native database: the key must open the file
validate(f, native) ==
    IF f.key = Some(native.enc_key) THEN Ok(None) ELSE Err(SqlCipherKeyIncorrect)

\* XmtpDb::conn: a connection from the pool
NativeDb_conn(native) == IF native.pool THEN Ok(None) ELSE Err(PoolNeedsConnection)

\* XmtpDb::release_connection: the pool is dropped
NativeDb_release_connection(native) == [res |-> Ok(None), db |-> [native EXCEPT !.pool = FALSE]]

\* XmtpDb::reconnect: a new pool on the same file (reopened: the pool is
\* one that reconnect built)
NativeDb_reconnect(native) == [res |-> Ok(None), db |-> [native EXCEPT !.pool = TRUE, !.reopened = TRUE]]

\* EncryptedMessageStore { db, opts } and whether the caller holds a
\* connection handle it got from the store
Store_(native, conn) == [db |-> native, conn |-> conn]

\* an init_db that does not validate
init_db_without_validate(f, this, fail_at) ==
    LET m == run_pending_migrations(f, fail_at)
    IN  [res |-> m.res, file |-> m.file,
         calls |-> << "conn", "run_pending_migrations" >>]

\* EncryptedMessageStore::init_db
init_db(f, this, fail_at) ==
    LET v == validate(f, this.db)
        c == NativeDb_conn(this.db)
        m == run_pending_migrations(f, fail_at)
    IN  IF ~v.ok THEN [res |-> v, file |-> f, calls |-> << "validate" >>]
        ELSE IF ~c.ok
        THEN [res |-> c, file |-> f, calls |-> << "validate", "conn" >>]
        ELSE [res |-> m.res, file |-> m.file,
              calls |-> << "validate", "conn", "run_pending_migrations" >>]

\* a constructor that returns the store whatever init_db answers
new_database_returns_store(f, enc_key, fail_at) ==
    LET native == NativeDb_new(f, enc_key)
        this == Store_(native.res.val, FALSE)
        i == init_db(native.file, this, fail_at)
    IN  [res |-> Ok(Some(this)), file |-> i.file,
         calls |-> << "NativeDb::new" >> \o i.calls]

\* EncryptedMessageStore::new_database(Persistent(path), Some(enc_key))
new_database(f, enc_key, fail_at) ==
    LET native == NativeDb_new(f, enc_key)
        this == Store_(native.res.val, FALSE)
        i == init_db(native.file, this, fail_at)
    IN  IF ~native.res.ok
        THEN [res |-> Err(native.res.err), file |-> native.file,
              calls |-> << "NativeDb::new" >>]
        ELSE [res |-> IF i.res.ok THEN Ok(Some(this)) ELSE Err(i.res.err),
              file |-> i.file,
              calls |-> << "NativeDb::new" >> \o i.calls]

\* a release that leaves the pool as it is
release_connection_keeps_pool(this) == [res |-> Ok(None), store |-> this]

\* EncryptedMessageStore::release_connection
release_connection(this) ==
    LET r == NativeDb_release_connection(this.db)
    IN  [res |-> r.res, store |-> [this EXCEPT !.db = r.db]]

\* EncryptedMessageStore::reconnect
reconnect(this) ==
    LET r == NativeDb_reconnect(this.db)
    IN  [res |-> r.res, store |-> [this EXCEPT !.db = r.db]]

(***************************************************************************)
(* The specification: two tasks, each with a handle to a connection of the *)
(* store; the handles are to two connections or to the same one.           *)
(***************************************************************************)
Init ==
    /\ db \in { {}, { new_from_welcome(1, 0, Allowed, "inbox", 7, Conversation, None) } }
    /\ writer = NoConn
    /\ pending = {}
    /\ saves = [c \in Conns |-> << >>]
    /\ connOf \in { [t \in Tasks |-> "c1"],
                     [t \in Tasks |-> IF t = "t1" THEN "c1" ELSE "c2"] }
    /\ frames = [t \in Tasks |-> << >>]
    /\ nops = 0
    /\ ncalls = 0
    /\ broken = {}
    /\ faults = 0
    /\ retry = [t \in Tasks |-> NoRetry]
    /\ file = Migrated
    /\ readback = [t \in Tasks |-> None]
    /\ storing = [t \in Tasks |-> None]
    /\ stores = [t \in Tasks |-> None]
    /\ last = Step("init", "t1", None, Ok(None))

Next ==
    \E t \in Tasks, propagate \in BOOLEAN :
        \/ \E kind \in {"transaction", "transaction_async"},
              fault \in {"none", "failed"} :
                TransactionBegin(t, kind, fault, propagate)
        \/ \E fault \in {"none", "failed", "broken"} :
                TransactionEnd(t, propagate, fault)
        \/ \E fault \in {"none", "failed", "broken"} :
                TransactionAsyncEnd(t, propagate, fault)
        \/ \E group \in Candidates : Store(t, group, propagate)
        \/ \E group \in Candidates : InsertOrReplaceGroup(t, group, propagate)

Spec == Init /\ [][Next]_vars

(***************************************************************************)
(* The group store under its queries.                                      *)
(***************************************************************************)
\* the rows a table can hold for one id: a conversation group, allowed or
\* pending, a DM group, a sync group; the group of id i is created at time i
TableIds == 1..MaxRows
RowsOf(id) ==
    << new(id, id, Allowed, "inbox", None),
       new(id, id, Pending, "inbox", None),
       new(id, id, Allowed, "inbox", Some("peer")),
       new_sync_group(id, id, Allowed) >>

\* the tables: for every id no row or one of its rows
Tables ==
    { { RowsOf(id)[pick[id]] : id \in { i \in TableIds : pick[i] # 0 } } :
        pick \in [TableIds -> 0..4] }

\* the arguments given to find_groups
AllowedStates == { None, Some({Allowed}), Some({Allowed, Pending}) }
CreatedAfter == { None, Some(1) }
CreatedBefore == { None, Some(MaxRows) }
Limits == { None, Some(1), Some(2) }

\* conn.find_groups(allowed_states, created_after_ns, created_before_ns,
\* limit, include_dm_groups)
FindGroups(t, allowed_states, created_after_ns, created_before_ns, limit, include_dm_groups) ==
    /\ Running(t)
    /\ nops < MaxOps
    /\ nops' = nops + 1
    /\ last' = Step("find_groups", t,
                    Some([allowed_states |-> allowed_states,
                          created_after_ns |-> created_after_ns,
                          created_before_ns |-> created_before_ns,
                          limit |-> limit,
                          include_dm_groups |-> include_dm_groups]),
                    find_groups(View(conn_ref(t)), allowed_states,
                                created_after_ns, created_before_ns, limit,
                                include_dm_groups))
    /\ UNCHANGED << db, writer, pending, saves, connOf, readback, storing, file, stores,
                    frames, ncalls,
                    broken, faults, retry >>

\* conn.find_sync_groups()
FindSyncGroups(t) ==
    /\ Running(t)
    /\ nops < MaxOps
    /\ nops' = nops + 1
    /\ last' = Step("find_sync_groups", t, None,
                    find_sync_groups(View(conn_ref(t))))
    /\ UNCHANGED << db, writer, pending, saves, connOf, readback, storing, file, stores,
                    frames, ncalls,
                    broken, faults, retry >>

\* a store holding one of the tables, each task with its own connection
InitGroup ==
    /\ db \in Tables
    /\ writer = NoConn
    /\ pending = {}
    /\ saves = [c \in Conns |-> << >>]
    /\ connOf = [t \in Tasks |-> IF t = "t1" THEN "c1" ELSE "c2"]
    /\ frames = [t \in Tasks |-> << >>]
    /\ nops = 0
    /\ ncalls = 0
    /\ broken = {}
    /\ faults = 0
    /\ retry = [t \in Tasks |-> NoRetry]
    /\ file = Migrated
    /\ readback = [t \in Tasks |-> None]
    /\ storing = [t \in Tasks |-> None]
    /\ stores = [t \in Tasks |-> None]
    /\ last = Step("init", "t1", None, Ok(None))

NextQuery ==
    \E t \in Tasks :
        \/ \E allowed_states \in AllowedStates,
              created_after_ns \in CreatedAfter,
              created_before_ns \in CreatedBefore,
              limit \in Limits,
              include_dm_groups \in BOOLEAN :
                FindGroups(t, allowed_states, created_after_ns,
                           created_before_ns, limit, include_dm_groups)
        \/ FindSyncGroups(t)

SpecQuery == InitGroup /\ [][NextQuery]_vars

(***************************************************************************)
(* The group store under its updates.                                      *)
(***************************************************************************)
\* the readings of the clock
Nows == {1, 2}

\* conn.update_group_membership(group_id, state)
UpdateGroupMembership(t, group_id, state) ==
    Write(t, "update_group_membership",
          [group_id |-> group_id, state |-> state],
          update_group_membership(View(conn_ref(t)), group_id, state), FALSE)

\* conn.update_installations_time_checked(group_id)
UpdateInstallationsTimeChecked(t, group_id, now) ==
    Write(t, "update_installations_time_checked",
          [group_id |-> group_id, now |-> now],
          update_installations_time_checked(View(conn_ref(t)), group_id, now),
          FALSE)

\* conn.get_installations_time_checked(group_id)
GetInstallationsTimeChecked(t, group_id) ==
    /\ Running(t)
    /\ nops < MaxOps
    /\ nops' = nops + 1
    /\ last' = Step("get_installations_time_checked", t, Some(group_id),
                    get_installations_time_checked(View(conn_ref(t)),
                                                   group_id))
    /\ UNCHANGED << db, writer, pending, saves, connOf, readback, storing, file, stores,
                    frames, ncalls,
                    broken, faults, retry >>

NextGroup ==
    \E t \in Tasks, group_id \in TableIds :
        \/ \E state \in {Allowed, Rejected, Pending} :
                UpdateGroupMembership(t, group_id, state)
        \/ \E now \in Nows : UpdateInstallationsTimeChecked(t, group_id, now)
        \/ GetInstallationsTimeChecked(t, group_id)

SpecGroup == InitGroup /\ [][NextGroup]_vars

(***************************************************************************)
(* The repository contract on the groups table.                            *)
(***************************************************************************)
\* A read statement of task t that answers res
Read(t, op, arg, res) ==
    /\ Running(t)
    /\ nops < MaxOps
    /\ nops' = nops + 1
    /\ last' = Step(op, t, arg, res)
    /\ UNCHANGED << db, writer, pending, saves, connOf, readback, storing, file, stores,
                    frames, ncalls,
                    broken, faults, retry >>

\* group.store_or_ignore(conn)
StoreOrIgnore(t, group) ==
    Write(t, "store_or_ignore", group,
          store_or_ignore(View(conn_ref(t)), group), FALSE)

\* conn.fetch(&key)
Fetch(t, key) == Read(t, "fetch", Some(key), fetch(View(conn_ref(t)), key))

\* conn.find_group_by_welcome_id(welcome_id)
FindGroupByWelcomeId(t, welcome_id) ==
    Read(t, "find_group_by_welcome_id", Some(welcome_id),
         find_group_by_welcome_id(View(conn_ref(t)), welcome_id))

\* the store under inserts, updates and transactions that commit or roll back
NextStore ==
    \E t \in Tasks :
        \/ TransactionBegin(t, "transaction", "none", FALSE)
        \/ TransactionEnd(t, FALSE, "none")
        \/ \E group \in Candidates : Store(t, group, FALSE)
        \/ \E group \in Candidates : StoreOrIgnore(t, group)
        \/ \E group \in Candidates : InsertOrReplaceGroup(t, group, FALSE)
        \/ \E group_id \in GroupIds, state \in {Rejected} :
                UpdateGroupMembership(t, group_id, state)
        \/ \E group_id \in GroupIds, now \in {1} :
                UpdateInstallationsTimeChecked(t, group_id, now)
        \/ \E group_id \in GroupIds : GetInstallationsTimeChecked(t, group_id)
        \/ \E key \in GroupIds : Fetch(t, key)

SpecStore == Init /\ [][NextStore]_vars

\* the rows a table can hold for one id when groups come from welcomes: the
\* group of welcome 7 created at time id or in the reverse order, the group
\* of welcome 8, a self-created group
WelcomeRowsOf(id) ==
    << new_from_welcome(id, id, Allowed, "inbox", 7, Conversation, None),
       new_from_welcome(id, MaxRows + 1 - id, Allowed, "inbox", 7, Conversation, None),
       new_from_welcome(id, id, Pending, "inbox", 8, Conversation, None),
       new(id, id, Allowed, "inbox", None) >>

WelcomeTables ==
    { { WelcomeRowsOf(id)[pick[id]] : id \in { i \in TableIds : pick[i] # 0 } } :
        pick \in [TableIds -> 0..4] }

InitLookup ==
    /\ db \in WelcomeTables
    /\ writer = NoConn
    /\ pending = {}
    /\ saves = [c \in Conns |-> << >>]
    /\ connOf = [t \in Tasks |-> IF t = "t1" THEN "c1" ELSE "c2"]
    /\ frames = [t \in Tasks |-> << >>]
    /\ nops = 0
    /\ ncalls = 0
    /\ broken = {}
    /\ faults = 0
    /\ retry = [t \in Tasks |-> NoRetry]
    /\ file = Migrated
    /\ readback = [t \in Tasks |-> None]
    /\ storing = [t \in Tasks |-> None]
    /\ stores = [t \in Tasks |-> None]
    /\ last = Step("init", "t1", None, Ok(None))

NextLookup ==
    \E t \in Tasks :
        \/ \E welcome_id \in {7, 8, 9} : FindGroupByWelcomeId(t, welcome_id)
        \/ \E key \in TableIds \cup {MaxRows + 1} : Fetch(t, key)

SpecLookup == InitLookup /\ [][NextLookup]_vars

(***************************************************************************)
(* The construction of stores on the backing file.                         *)
(***************************************************************************)
\* EncryptedMessageStore::new(Persistent(path), enc_key) by task t;
\* fail_at: the version whose migration fails (0: none)
NewDatabase(t, enc_key, fail_at) ==
    LET r == new_database(file, enc_key, fail_at)
    IN  /\ stores[t] = None
        /\ ncalls < MaxCalls
        /\ fail_at # 0 => faults < MaxFaults /\ r.res = Err(MigrationFailed)
        /\ file' = r.file
        /\ stores' = [stores EXCEPT ![t] = r.res.val]
        /\ ncalls' = ncalls + 1
        /\ faults' = IF fail_at # 0 THEN faults + 1 ELSE faults
        /\ last' = [Step("new", t, Some(enc_key),
                         IF r.res.ok THEN Ok(None) ELSE r.res)
                        EXCEPT !.calls = r.calls]
        /\ UNCHANGED << db, writer, pending, saves, connOf, readback, storing, frames, nops,
                        broken, retry >>

\* a step on the store task t holds that leaves the groups table alone
OnStore(t, op, arg, res, f, this) ==
    /\ file' = f
    /\ stores' = [stores EXCEPT ![t] = this]
    /\ last' = Step(op, t, arg, res)
    /\ UNCHANGED << db, writer, pending, saves, connOf, readback, storing, frames, ncalls,
                    broken, faults, retry >>

\* the store goes out of scope
Drop(t) ==
    /\ stores[t] # None
    /\ OnStore(t, "drop", None, Ok(None), file, None)
    /\ UNCHANGED nops

\* let conn = store.conn(): the caller keeps the handle
Conn(t) ==
    /\ stores[t] # None
    /\ LET c == NativeDb_conn(stores[t][1].db)
       IN  OnStore(t, "conn", None, c, file,
                   IF c.ok THEN Some([stores[t][1] EXCEPT !.conn = TRUE])
                   ELSE stores[t])
    /\ UNCHANGED nops

\* the connection a statement runs on: the handle the caller holds, or one
\* it gets from the store for the statement
Connection(t, via) ==
    IF via = "held" THEN Ok(None) ELSE NativeDb_conn(stores[t][1].db)

\* StoredIdentity::new(inbox_id, ..).store(conn): needs the identity table
StoreIdentity(t, inbox_id, via) ==
    LET c == Connection(t, via)
        stored == c.ok /\ Has(file, "create_tables")
    IN  /\ stores[t] # None
        /\ via = "held" => stores[t][1].conn /\ stores[t][1].db.pool
        /\ file.identity = None
        /\ nops < MaxOps
        /\ nops' = nops + 1
        /\ OnStore(t, "store_identity", Some(via),
                   IF ~c.ok THEN c
                   ELSE IF stored THEN Ok(None) ELSE Err(DatabaseError),
                   IF stored THEN [file EXCEPT !.identity = Some(inbox_id)]
                   ELSE file,
                   stores[t])

\* conn.fetch(&()): the first row of the identity table
FetchIdentity(t, via) ==
    LET c == Connection(t, via)
    IN  /\ stores[t] # None
        /\ via = "held" => stores[t][1].conn /\ stores[t][1].db.pool
        /\ nops < MaxOps
        /\ nops' = nops + 1
        /\ OnStore(t, "fetch_identity", Some(via),
                   IF ~c.ok THEN c
                   ELSE IF Has(file, "create_tables") THEN Ok(file.identity)
                   ELSE Err(DatabaseError),
                   file, stores[t])

\* store.release_connection()
ReleaseConnection(t) ==
    /\ stores[t] # None
    /\ LET r == release_connection(stores[t][1])
       IN  OnStore(t, "release_connection", None, r.res, file, Some(r.store))
    /\ UNCHANGED nops

\* store.reconnect()
Reconnect(t) ==
    /\ stores[t] # None
    /\ LET r == reconnect(stores[t][1])
       IN  OnStore(t, "reconnect", None, r.res, file, Some(r.store))
    /\ UNCHANGED nops

\* the files a store can be constructed on: none yet, or the file of an
\* earlier run or release, created with key k1, with the migrations up to
\* some version applied, with or without an identity and a DM group in the
\* shape of its version
OpenFiles ==
    {NoFile} \cup
    { f \in [key : {Some("k1")},
             applied : { UpTo(n) : n \in 0..Len(MIGRATIONS) },
             identity : {None, Some("inbox_id")},
             groups : { {}, { GroupRow(1, Some("98765"), None) } }] :
        /\ f.applied = << >> => f.identity = None
        /\ f.groups # {} =>
              IF f.applied = << >> THEN FALSE
              ELSE MIGRATIONS[Len(f.applied)] = "add_dm_inbox_id" }

InitOpen ==
    /\ db = {}
    /\ writer = NoConn
    /\ pending = {}
    /\ saves = [c \in Conns |-> << >>]
    /\ connOf = [t \in Tasks |-> IF t = "t1" THEN "c1" ELSE "c2"]
    /\ frames = [t \in Tasks |-> << >>]
    /\ nops = 0
    /\ ncalls = 0
    /\ broken = {}
    /\ faults = 0
    /\ retry = [t \in Tasks |-> NoRetry]
    /\ file \in OpenFiles
    /\ readback = [t \in Tasks |-> None]
    /\ storing = [t \in Tasks |-> None]
    /\ stores = [t \in Tasks |-> None]
    /\ last = Step("init", "t1", None, Ok(None))

NextOpen ==
    \E t \in Tasks :
        \/ \E enc_key \in Keys, fail_at \in {0} \cup Versions :
                NewDatabase(t, enc_key, fail_at)
        \/ Drop(t)
        \/ Conn(t)
        \/ \E inbox_id \in InboxIds, via \in {"held", "new"} :
                StoreIdentity(t, inbox_id, via)
        \/ \E via \in {"held", "new"} : FetchIdentity(t, via)
        \/ ReleaseConnection(t)
        \/ Reconnect(t)

SpecOpen == InitOpen /\ [][NextOpen]_vars

(***************************************************************************)
(* Migrations run one at a time on a file that is written in between.      *)
(***************************************************************************)
\* conn.run_next_migration(MIGRATIONS)
RunNextMigration(t, fail) ==
    LET r == run_next_migration(file, fail)
    IN  /\ stores[t] # None
        /\ fail => pending_migrations(file) # << >>
        /\ OnStore(t, "run_next_migration", None, r.res, r.file, stores[t])
        /\ UNCHANGED nops

\* conn.run_pending_migrations(MIGRATIONS)
RunPendingMigrations(t) ==
    LET r == run_pending_migrations(file, 0)
    IN  /\ stores[t] # None
        /\ OnStore(t, "run_pending_migrations", None, r.res, r.file, stores[t])
        /\ UNCHANGED nops

\* INSERT INTO groups (id, .., dm_inbox_id) VALUES (..): a DM group in the
\* shape the table has while dm_inbox_id is a column of it
InsertLegacyDm(t, id, dm_inbox_id) ==
    LET shape == Has(file, "add_dm_inbox_id") /\ ~Has(file, "dm_id")
        taken == \E r \in file.groups : r.id = id
    IN  /\ stores[t] # None
        /\ nops < MaxOps
        /\ nops' = nops + 1
        /\ OnStore(t, "insert_legacy_dm",
                   Some([id |-> id, dm_inbox_id |-> dm_inbox_id]),
                   IF ~shape THEN Err(DatabaseError)
                   ELSE IF taken THEN Err(UniqueViolation) ELSE Ok(None),
                   IF shape /\ ~taken
                   THEN [file EXCEPT !.groups =
                            @ \cup { GroupRow(id, Some(dm_inbox_id), None) }]
                   ELSE file,
                   stores[t])

\* groups::table.load::<StoredGroup>(conn): rows with a dm_id
LoadGroups(t) ==
    /\ stores[t] # None
    /\ OnStore(t, "load_groups", None,
               IF Has(file, "dm_id") THEN Ok(file.groups)
               ELSE Err(DatabaseError),
               file, stores[t])
    /\ UNCHANGED nops

\* the file just created, no migration run, a store on it in each task's
\* hands
InitMigrate ==
    /\ db = {}
    /\ writer = NoConn
    /\ pending = {}
    /\ saves = [c \in Conns |-> << >>]
    /\ connOf = [t \in Tasks |-> IF t = "t1" THEN "c1" ELSE "c2"]
    /\ frames = [t \in Tasks |-> << >>]
    /\ nops = 0
    /\ ncalls = 0
    /\ broken = {}
    /\ faults = 0
    /\ retry = [t \in Tasks |-> NoRetry]
    /\ file = NativeDb_new(NoFile, "k1").file
    /\ readback = [t \in Tasks |-> None]
    /\ storing = [t \in Tasks |-> None]
    /\ stores = [t \in Tasks |->
                    Some(Store_(NativeDb_new(NoFile, "k1").res.val, FALSE))]
    /\ last = Step("init", "t1", None, Ok(None))

NextMigrate ==
    \E t \in Tasks :
        \/ \E fail \in BOOLEAN : RunNextMigration(t, fail)
        \/ RunPendingMigrations(t)
        \/ \E id \in GroupIds, dm_inbox_id \in {"98765"} :
                InsertLegacyDm(t, id, dm_inbox_id)
        \/ \E inbox_id \in InboxIds : StoreIdentity(t, inbox_id, "new")
        \/ LoadGroups(t)

SpecMigrate == InitMigrate /\ [][NextMigrate]_vars

(***************************************************************************)
(* The store with retried calls.                                           *)
(***************************************************************************)
NextRetry ==
    \E t \in Tasks :
        \/ TransactionBegin(t, "transaction_async", "none", FALSE)
        \/ \E propagate \in BOOLEAN, fault \in {"none", "failed"} :
                TransactionAsyncEnd(t, propagate, fault)
        \/ \E group \in Candidates, propagate \in BOOLEAN :
                Store(t, group, propagate)
        \/ \E retries \in 0..MaxRetries, fault \in {"none", "failed"} :
                RetryableTransactionAsync(t, retries, fault)
        \/ \E fault \in {"none", "failed"} : RetryAgain(t, fault)

SpecRetry == Init /\ [][NextRetry]_vars

(***************************************************************************)
(* The store with retried calls whose attempts fail after their writes.    *)
(***************************************************************************)
\* the work closure of an attempt returns a retryable error once its
\* statements have run (the locked error of an earlier statement, kept by
\* the closure)
AttemptFails(t, fault) ==
    /\ retry[t].active
    /\ frames[t] # << >>
    /\ Top(frames[t]).kind = "transaction_async"
    /\ Top(frames[t]).result = None
    /\ End(t, transaction_async(t, Err(Locked), fault), FALSE, fault)

NextAttempts ==
    \E t \in Tasks :
        \/ TransactionBegin(t, "transaction_async", "none", FALSE)
        \/ \E propagate \in BOOLEAN, fault \in {"none", "failed"} :
                TransactionAsyncEnd(t, propagate, fault)
        \/ \E group \in Candidates, propagate \in BOOLEAN :
                Store(t, group, propagate)
        \/ \E retries \in 0..MaxRetries, fault \in {"none", "failed"} :
                RetryableTransactionAsync(t, retries, fault)
        \/ \E fault \in {"none", "failed"} : RetryAgain(t, fault)
        \/ \E fault \in {"none", "failed", "broken"} : AttemptFails(t, fault)

SpecAttempts == Init /\ [][NextAttempts]_vars

(***************************************************************************)
(* The store under stores of a Vec of groups, item by item, outside and    *)
(* inside transactions.                                                    *)
(***************************************************************************)
\* the Vecs given to store: one to MaxItems self-created groups
Batches ==
    UNION { [1..n -> { new(g, 0, Allowed, "inbox", None) : g \in GroupIds }] :
                n \in 1..MaxItems }

NextVec ==
    \E t \in Tasks, propagate \in BOOLEAN :
        \/ /\ storing[t] = None
           /\ TransactionBegin(t, "transaction", "none", FALSE)
        \/ /\ storing[t] = None
           /\ TransactionEnd(t, propagate, "none")
        \/ \E items \in Batches : StoreVec(t, items, propagate)
        \/ StoreNext(t, propagate)

SpecVec == Init /\ [][NextVec]_vars

(***************************************************************************)
(* The store under concurrent insert_or_replace_group calls, statement by  *)
(* statement: the calls of the two tasks overlap, outside and inside       *)
(* transactions that commit or roll back.                                  *)
(***************************************************************************)
\* task t is not inside a raw_query closure and its connection's mutex is
\* not held
AtStatement(t) == readback[t] = None /\ raw_query_free(t)

NextConcurrent ==
    \E t \in Tasks, propagate \in BOOLEAN :
        \/ /\ AtStatement(t)
           /\ TransactionBegin(t, "transaction", "none", FALSE)
        \/ /\ AtStatement(t)
           /\ TransactionEnd(t, propagate, "none")
        \/ \E group \in Candidates :
                InsertOrReplaceGroupInsert(t, group, propagate)
        \/ InsertOrReplaceGroupReadBack(t, propagate)

SpecConcurrent == Init /\ [][NextConcurrent]_vars

(***************************************************************************)
(* Properties of insert_or_replace_group.                                  *)
(***************************************************************************)
\* the step just taken is insert_or_replace_group and the engine let the
\* statement run
InsertOrReplaceRan ==
    /\ last'.op = "insert_or_replace_group"
    /\ write_lock_free(conn_ref(last'.t))

\* the rows with the candidate's id that the caller's connection sees before
\* and after the step just taken
ViewAfter(c) == IF writer' = c THEN pending' ELSE db'
RowsBefore == find(View(conn_ref(last'.t)), last'.arg[1].id)
RowsAfter == find(ViewAfter(conn_ref(last'.t)), last'.arg[1].id)

\* C1: the first insert_or_replace_group for an id stores and returns the
\* candidate; a later one whose candidate has the same id and the same
\* welcome_id fails with Duplicate(WelcomeId) and the stored row stays the
\* row of the first call, whatever the other fields of the candidate are.
C1_DuplicateWelcome ==
    [][ InsertOrReplaceRan =>
          /\ RowsBefore = {} =>
                /\ last'.res = Ok(Some(last'.arg[1]))
                /\ RowsAfter = { last'.arg[1] }
          /\ \A existing \in RowsBefore :
                existing.welcome_id = last'.arg[1].welcome_id =>
                    /\ last'.res = Err(Duplicate(existing.welcome_id))
                    /\ RowsAfter = { existing } ]_vars

\* a second call with the same id and welcome_id but another membership
\* state has failed with Duplicate and the first row is still the stored one
C1_Witness ==
    /\ last.op = "insert_or_replace_group"
    /\ last.res = Err(Duplicate(Some(7)))
    /\ \E existing \in find(View(conn_ref(last.t)), last.arg[1].id) :
          /\ existing.welcome_id = last.arg[1].welcome_id
          /\ existing.membership_state # last.arg[1].membership_state

\* C2: insert_or_replace_group for an id that already has a row, with a
\* candidate whose welcome_id differs from the stored one, returns the stored
\* row and leaves the table as it was: one row for the id before and after.
C2_DifferentWelcome ==
    [][ InsertOrReplaceRan =>
          \A existing \in RowsBefore :
              existing.welcome_id # last'.arg[1].welcome_id =>
                  /\ last'.res = Ok(Some(existing))
                  /\ ViewAfter(conn_ref(last'.t)) = View(conn_ref(last'.t))
                  /\ db' = db
                  /\ Cardinality(RowsBefore) = 1
                  /\ Cardinality(RowsAfter) = 1 ]_vars

\* a call whose candidate carries another welcome_id than the stored row has
\* returned the stored row
C2_Witness ==
    /\ last.op = "insert_or_replace_group"
    /\ last.res.ok
    /\ last.res.val # Some(last.arg[1])
    /\ last.res.val[1].id = last.arg[1].id
    /\ last.res.val[1].welcome_id # last.arg[1].welcome_id
    /\ find(View(conn_ref(last.t)), last.arg[1].id) = { last.res.val[1] }

(***************************************************************************)
(* Properties of the transaction coordinator.                              *)
(***************************************************************************)
\* the step just taken is the return of a coordinator call whose work ran
CoordinatorReturned ==
    /\ last.op \in {"transaction", "transaction_async"}
    /\ last.work # None

\* the step just taken is the return of a call whose work failed after
\* inserting rows
WorkFailedAfterWrites ==
    /\ CoordinatorReturned
    /\ ~last.work[1].ok
    /\ last.ins # {}

\* C3: when the work of transaction / transaction_async has written rows and
\* then returns Err, none of these rows can be read on any connection once
\* the call has returned: find_group of their ids is None.
C3_Atomicity ==
    WorkFailedAfterWrites /\ last.engine.ok =>
        \A r \in last.ins : \A c \in Conns : find_group(View(c), r.id) = None

\* C4: when insert_or_replace_group fails with the duplicate-welcome error
\* inside transaction(work) after other writes of the same work, and work
\* propagates the error, the transaction is rolled back, the other writes
\* are undone and the caller gets the duplicate-welcome error.
C4_DuplicateRollsBack ==
    /\ WorkFailedAfterWrites
    /\ last.op = "transaction"
    /\ last.work[1].err.kind = "Duplicate"
    /\ last.engine.ok
    => /\ last.issued = "rollback"
       /\ last.res = last.work[1]
       /\ \A r \in last.ins : \A c \in Conns : r \notin View(c)

\* C5: when work returns Err(e) the coordinator issues one rollback; it
\* returns e when the rollback succeeds or fails with
\* BrokenTransactionManager, and the rollback's error otherwise.
C5_RollbackErrorMapping ==
    CoordinatorReturned /\ ~last.work[1].ok =>
        /\ last.issued = "rollback"
        /\ last.engine.ok \/ last.engine.err = BrokenTransactionManager
              => last.res = last.work[1]
        /\ ~last.engine.ok /\ last.engine.err # BrokenTransactionManager
              => last.res = Err(last.engine.err)

\* work failed, the rollback failed with BrokenTransactionManager, and the
\* caller got the error of work
C5_Witness ==
    /\ CoordinatorReturned
    /\ last.work = Some(Err(WorkError))
    /\ last.issued = "rollback"
    /\ last.engine = Err(BrokenTransactionManager)
    /\ last.res = Err(WorkError)

\* C6: while one connection holds uncommitted writes, a write on another
\* connection fails with the locked error and changes nothing; the holder's
\* transaction then commits its writes.
C6_SingleWriter ==
    [][ /\ /\ last'.op \in {"store", "insert_or_replace_group"}
           /\ writer \notin {conn_ref(last'.t), NoConn}
           => /\ last'.res = Err(Locked)
              /\ db' = db
              /\ pending' = pending
              /\ writer' = writer
        /\ /\ last'.op \in {"transaction", "transaction_async"}
           /\ last'.issued = "commit"
           /\ last'.engine.ok
           /\ writer = conn_ref(last'.t)
           /\ Depth(conn_ref(last'.t)) = 1
           => /\ last'.res.ok
              /\ db' = pending
              /\ writer' = NoConn ]_vars

\* a write on the second connection has been refused while the first holds
\* an uncommitted row, and the refused row is nowhere
C6_Witness ==
    /\ last.op \in {"store", "insert_or_replace_group"}
    /\ last.res = Err(Locked)
    /\ writer \notin {conn_ref(last.t), NoConn}
    /\ pending # db
    /\ \A c \in Conns : find_group(View(c), last.arg[1].id) # last.arg

\* the coordinator calls open on connection c
OpenCalls(c) == { << t, i >> \in Tasks \X (1..MaxNest) :
                    conn_ref(t) = c /\ i <= Len(frames[t]) }

\* C7: at most one transaction is active on a connection: while a
\* coordinator call is open on it no second one is, whether started by the
\* work itself or by another holder of the connection.
C7_OneTransactionPerConnection ==
    \A c \in Conns : Cardinality(OpenCalls(c)) <= 1

\* C8: while a coordinator call of one task is open on a connection, no
\* other task executes a statement on that connection.
C8_ExclusiveDuringWork ==
    [][ \A t \in Tasks :
          frames[t] # << >> => last'.t \notin OtherHolders(t, conn_ref(t)) ]_vars

\* C9: transaction_async issues its commit or rollback only when no other
\* holder of the connection exists.
C9_NoAliasAtCommit ==
    last.op = "transaction_async" /\ last.work # None => last.others = {}

\* what a work closure can return
WorkOutcomes ==
    { Ok(None), Err(WorkError), Err(Locked), Err(Duplicate(Some(7))),
      Err(BrokenTransactionManager) }

\* C10: transaction and transaction_async do the same: in every state and
\* for every outcome of work they issue the same begin, the same commit or
\* rollback on the same connection, leave the same engine state and return
\* the same value.
C10_Equivalence ==
    \A t \in Tasks, fault \in {"none", "failed", "broken"} :
        /\ transaction_begin(t, fault) = transaction_async_begin(t, fault)
        /\ \A result \in WorkOutcomes :
              transaction(t, result, fault) = transaction_async(t, result, fault)

\* a transaction_async call has returned the error of a failed rollback
C10_Witness ==
    /\ last.op = "transaction_async"
    /\ last.work = Some(Err(WorkError))
    /\ last.engine = Err(RollbackFailed)
    /\ last.res = Err(RollbackFailed)

\* the step just taken is the return of a task's outermost coordinator call
\* whose work returned Ok and whose commit the engine accepted
CommittedCall ==
    /\ CoordinatorReturned
    /\ frames[last.t] = << >>
    /\ last.work[1].ok
    /\ last.issued = "commit"
    /\ last.engine.ok

\* C12: the rows written by a transaction whose work returned Ok and whose
\* commit succeeded are read on every connection of the store from then on.
C12_CommittedVisible ==
    CommittedCall => \A r \in last.ins : \A c \in Conns : r \in View(c)

\* C13: a coordinator call whose begin succeeded and whose work returned
\* ends Committed when work returned Ok and RolledBack when it returned Err,
\* one of the two and not both, and leaves no transaction active on the
\* connection.
C13_CommittedOrRolledBack ==
    CoordinatorReturned /\ frames[last.t] = << >> =>
        /\ Depth(conn_ref(last.t)) = 0
        /\ last.work[1].ok =>
              last.issued = "commit" /\ last.engine.ok /\ last.res.ok
        /\ ~last.work[1].ok =>
              last.issued = "rollback" /\ writer # conn_ref(last.t)

(***************************************************************************)
(* Properties of the retried call.                                         *)
(***************************************************************************)
\* C11: retryable_transaction_async runs the transaction again only after
\* an attempt that failed with a retryable error, and at most as often as
\* the policy allows; an attempt that fails with a non-retryable error ends
\* the call with that error, after one attempt when it is the first.
C11_RetryOnlyRetryable ==
    [][ \A t \in Tasks :
          /\ retry'[t].runs > retry[t].runs /\ retry[t].runs >= 1 =>
                /\ retry[t].res # None
                /\ ~retry[t].res[1].ok
                /\ is_retryable(retry[t].res[1].err)
                /\ retry[t].runs <= retry[t].retries
          /\ /\ retry'[t].res # None
             /\ ~retry'[t].res[1].ok
             /\ ~is_retryable(retry'[t].res[1].err)
             => ~retry'[t].active
          /\ /\ retry[t].res # None
             /\ ~retry[t].res[1].ok
             /\ ~is_retryable(retry[t].res[1].err)
             => retry'[t].runs = retry[t].runs ]_vars

\* a second attempt runs after the first failed with the locked error
C11_Witness ==
    \E t \in Tasks :
        /\ retry[t].active
        /\ retry[t].runs = 2
        /\ retry[t].res = Some(Err(Locked))
        /\ frames[t] # << >>

(***************************************************************************)
(* Properties of the listings.                                             *)
(***************************************************************************)
\* the step just taken is find_groups; its arguments, the rows it returned
\* and the table it ran on
FoundGroups == last.op = "find_groups"
Args == last.arg[1]
Found == last.res.val
FoundSet == { Found[i] : i \in 1..Len(Found) }
Table == View(conn_ref(last.t))

\* the rows of the table that pass the conditions of the arguments other
\* than the limit, with DM groups let through or not
MatchingWith(include_dm_groups) ==
    { r \in Table :
        /\ r.purpose = Conversation
        /\ Args.allowed_states # None =>
                r.membership_state \in Args.allowed_states[1]
        /\ Args.created_after_ns # None =>
                r.created_at_ns > Args.created_after_ns[1]
        /\ Args.created_before_ns # None =>
                r.created_at_ns < Args.created_before_ns[1]
        /\ include_dm_groups \/ r.dm_inbox_id = None }
Matching == MatchingWith(Args.include_dm_groups)

\* C14: find_groups never returns a Sync group, whatever its arguments, and
\* find_sync_groups returns the Sync groups of the table, all of them and
\* nothing else.
C14_PurposePartition ==
    /\ FoundGroups => \A r \in FoundSet : r.purpose # Sync
    /\ last.op = "find_sync_groups" =>
          /\ FoundSet = { r \in Table : r.purpose = Sync }
          /\ Len(Found) = Cardinality(FoundSet)

\* find_groups has returned rows from a table that also holds a Sync group
\* passing every other condition of the call
C14_Witness ==
    /\ FoundGroups
    /\ Found # << >>
    /\ \E r \in Table :
          /\ r.purpose = Sync
          /\ Args.allowed_states # None =>
                r.membership_state \in Args.allowed_states[1]
          /\ Args.created_after_ns = None
          /\ Args.created_before_ns = None

\* the table holds one Conversation group, one Sync group and one DM group,
\* and find_groups was called with include_dm_groups and no other filter
OneOfEach ==
    /\ FoundGroups
    /\ Args = [allowed_states |-> None, created_after_ns |-> None,
               created_before_ns |-> None, limit |-> None,
               include_dm_groups |-> TRUE]
    /\ Cardinality(Table) = 3
    /\ \E conv, sync, dm \in Table :
          /\ conv.purpose = Conversation /\ conv.dm_inbox_id = None
          /\ sync.purpose = Sync
          /\ dm.purpose = Conversation /\ dm.dm_inbox_id # None

\* C15 as stated: on a table of one Conversation group, one Sync group and
\* one DM group, find_groups with include_dm_groups and no other filter
\* returns all three groups.
C15_AllThree == OneOfEach => FoundSet = Table

\* C15: on such a table find_groups with include_dm_groups and no other
\* filter returns the Conversation group and the DM group, in the order of
\* their creation, and not the Sync group.
C15_ConversationAndDm ==
    OneOfEach =>
        /\ Len(Found) = 2
        /\ FoundSet = { r \in Table : r.purpose = Conversation }
        /\ Found[1].created_at_ns < Found[2].created_at_ns

\* such a call has returned
C15_Witness == OneOfEach /\ Len(Found) = 2

\* C16: without include_dm_groups find_groups returns no DM group: it
\* returns rows of the Conversation groups that are no DM and pass the other
\* filters, all of them when no limit is given; with include_dm_groups the
\* DM groups passing the other filters are returned alongside.
C16_DmPartition ==
    FoundGroups =>
        /\ ~Args.include_dm_groups => \A r \in FoundSet : r.dm_inbox_id = None
        /\ FoundSet \subseteq Matching
        /\ Args.limit = None => FoundSet = Matching
        /\ Args.include_dm_groups /\ Args.limit = None =>
              \A r \in MatchingWith(TRUE) :
                  r.dm_inbox_id # None => r \in FoundSet

\* find_groups without include_dm_groups has returned a group from a table
\* that holds a DM group passing the other filters
C16_Witness ==
    /\ FoundGroups
    /\ ~Args.include_dm_groups
    /\ Args.limit = None
    /\ Found # << >>
    /\ \E r \in MatchingWith(TRUE) : r.dm_inbox_id # None

\* C17: find_groups returns the Conversation groups that pass the filters
\* given (membership state, created strictly after, created strictly
\* before, DM exclusion), in ascending order of created_at_ns, cut to the
\* first `limit` of them when a limit is given: the limit applies after the
\* DM and purpose conditions.
C17_ReferenceQuery ==
    FoundGroups =>
        /\ last.res.ok
        /\ FoundSet \subseteq Matching
        /\ \A i, j \in 1..Len(Found) :
              i < j => Found[i].created_at_ns < Found[j].created_at_ns
        /\ Len(Found) = IF Args.limit # None
                           /\ Args.limit[1] < Cardinality(Matching)
                        THEN Args.limit[1] ELSE Cardinality(Matching)
        /\ \A r \in Matching \ FoundSet : \A q \in FoundSet :
              q.created_at_ns < r.created_at_ns

\* find_groups with limit 1 has returned the earliest group passing the
\* filters from a table whose earliest group is a DM or Sync group
C17_Witness ==
    /\ FoundGroups
    /\ Args.limit = Some(1)
    /\ ~Args.include_dm_groups
    /\ Len(Found) = 1
    /\ \E r \in Table :
          /\ r.dm_inbox_id # None \/ r.purpose = Sync
          /\ r.created_at_ns < Found[1].created_at_ns
          /\ Args.created_after_ns # None =>
                r.created_at_ns > Args.created_after_ns[1]

(***************************************************************************)
(* Properties of the updates.                                              *)
(***************************************************************************)
\* the table the caller of the step just taken saw before it
TableBefore == View(conn_ref(last'.t))
TableAfter == ViewAfter(conn_ref(last'.t))

\* C18: update_group_membership on an existing group succeeds whatever the
\* prior and the new state are; afterwards the row has the new state, its
\* other fields are as before, and the other rows are as before.
C18_MembershipUpdate ==
    [][ /\ last'.op = "update_group_membership"
        /\ writer \in {conn_ref(last'.t), NoConn}
        => /\ last'.res = Ok(None)
           /\ Cardinality(TableAfter) = Cardinality(TableBefore)
           /\ \A r \in TableBefore :
                 IF r.id = last'.arg[1].group_id
                 THEN [r EXCEPT !.membership_state = last'.arg[1].state]
                            \in TableAfter
                 ELSE r \in TableAfter ]_vars

\* a group has been set to Pending in a table where another group, set to
\* Rejected before, still is
C18_Witness ==
    /\ last.op = "update_group_membership"
    /\ last.arg[1].state = Pending
    /\ \E r \in db : r.id = last.arg[1].group_id /\ r.membership_state = Pending
    /\ \E r \in db : r.id # last.arg[1].group_id /\ r.membership_state = Rejected

\* C19: installations_last_checked of a group never decreases, and after
\* update_installations_time_checked on a group it is at least the group's
\* created_at_ns, whatever created_at_ns and the clock reading are.
C19_LastCheckedMonotonic ==
    [][ \A r \in TableBefore : \A q \in TableAfter :
          r.id = q.id =>
              /\ q.installations_last_checked >= r.installations_last_checked
              /\ last'.op = "update_installations_time_checked"
                 /\ last'.arg[1].group_id = q.id
                 => q.installations_last_checked >= q.created_at_ns ]_vars

\* C20: get_installations_time_checked fails with NotFound when no row has
\* the id and only then; otherwise it returns the row's
\* installations_last_checked; it changes nothing.
C20_GetLastChecked ==
    [][ last'.op = "get_installations_time_checked" =>
          /\ find(TableBefore, last'.arg[1]) = {} <=>
                last'.res = Err(NotFound)
          /\ \A r \in find(TableBefore, last'.arg[1]) :
                last'.res = Ok(r.installations_last_checked)
          /\ db' = db /\ pending' = pending /\ writer' = writer ]_vars

\* the lookup of an id without a row has failed with NotFound on a table
\* that holds other groups
C20_Witness ==
    /\ last.op = "get_installations_time_checked"
    /\ last.res = Err(NotFound)
    /\ db # {}
    /\ find(db, last.arg[1]) = {}

(***************************************************************************)
(* Claims about the repository contract.                                   *)
(***************************************************************************)
\* at most one row per id
UniqueIds(tbl) == \A r \in tbl : \A q \in tbl : r.id = q.id => r = q

\* the step just taken is an insert of a group by one of the three inserts,
\* executed by the engine
Inserted(op) ==
    /\ last'.op = op
    /\ last'.res.err # Locked

\* C21: the groups table holds at most one row per id in every reachable
\* state, committed or inside a transaction, and an insert (store,
\* store_or_ignore, insert_or_replace_group) of an id that has a row leaves
\* that row as it was.
C21_UniqueIds ==
    [][ /\ UniqueIds(db') /\ UniqueIds(pending')
        /\ \A op \in {"store", "store_or_ignore", "insert_or_replace_group"} :
              Inserted(op) /\ RowsBefore # {} =>
                  RowsAfter = RowsBefore ]_vars

\* an insert of an id that has a row with other fields than the candidate's
\* has run, and the table holds the row, not the candidate
C21_Witness ==
    /\ last.op \in {"store", "store_or_ignore", "insert_or_replace_group"}
    /\ last.res.err # Locked
    /\ find(Table, last.arg[1].id) # {}
    /\ last.arg[1] \notin Table

\* C22: store fails with the constraint violation and leaves the table as it
\* was when a row with the entity's key exists; otherwise it inserts the
\* entity, and a fetch of the key that follows returns the entity stored.
C22_StoreStrict ==
    [][ /\ Inserted("store") =>
              IF RowsBefore # {}
              THEN /\ last'.res = Err(UniqueViolation)
                   /\ TableAfter = TableBefore
              ELSE /\ last'.res = Ok(None)
                   /\ TableAfter = TableBefore \cup { last'.arg[1] }
        /\ /\ last.op = "store" /\ last.res.ok
           /\ last'.op = "fetch" /\ last'.t = last.t
           /\ last'.arg[1] = last.arg[1].id
           => last'.res = Ok(Some(last.arg[1])) ]_vars

\* a store of a key that has a row has failed with the constraint violation
C22_Witness ==
    /\ last.op = "store"
    /\ last.res = Err(UniqueViolation)
    /\ last.arg[1] \notin Table

\* C23: store_or_ignore returns Ok; when a row with the entity's key exists
\* the table stays as it was, otherwise the entity is inserted; applied
\* again it changes nothing.
C23_StoreOrIgnoreIdempotent ==
    [][ /\ Inserted("store_or_ignore") =>
              /\ last'.res = Ok(None)
              /\ IF RowsBefore # {}
                 THEN TableAfter = TableBefore
                 ELSE TableAfter = TableBefore \cup { last'.arg[1] }
        /\ /\ last.op = "store_or_ignore" /\ last.res.ok
           /\ Inserted("store_or_ignore")
           /\ last'.t = last.t /\ last'.arg = last.arg
           => TableAfter = TableBefore ]_vars

\* store_or_ignore of an entity whose key has a row with other fields has
\* returned Ok and the row is as it was
C23_Witness ==
    /\ last.op = "store_or_ignore"
    /\ last.res = Ok(None)
    /\ find(Table, last.arg[1].id) # {}
    /\ last.arg[1] \notin Table

\* the rows of the welcome looked up
WelcomeMatches == { r \in Table : r.welcome_id = Some(last.arg[1]) }

\* C29: find_group_by_welcome_id returns None when no row has the welcome
\* id; when one or more rows have it, it returns Ok with one of them whose
\* created_at_ns is the smallest.
C29_EarliestWelcome ==
    last.op = "find_group_by_welcome_id" =>
        /\ last.res.ok
        /\ WelcomeMatches = {} <=> last.res.val = None
        /\ WelcomeMatches # {} =>
              /\ last.res.val[1] \in WelcomeMatches
              /\ \A q \in WelcomeMatches :
                    last.res.val[1].created_at_ns <= q.created_at_ns

\* the lookup has answered on a table where rows created at different times
\* have the welcome id
C29_Witness ==
    /\ last.op = "find_group_by_welcome_id"
    /\ last.res.ok
    /\ \E r \in WelcomeMatches : \E q \in WelcomeMatches :
            r.created_at_ns < q.created_at_ns

\* the id an update or a lookup of the step just taken names has no row
MissingTarget == find(TableBefore, last'.arg[1].group_id) = {}

\* C30: an operation that hits a failure or a missing target returns an
\* error: a write refused by the engine, a store of a key that has a row, an
\* insert_or_replace_group of a welcome already applied, an update or a
\* lookup of an id without a row, a transaction whose work or whose commit
\* or rollback failed. Only store_or_ignore on a conflict and
\* insert_or_replace_group on an id of another group return Ok.
C30_NoSwallowedError ==
    [][ /\ /\ last'.op \in {"store", "store_or_ignore",
                            "insert_or_replace_group",
                            "update_group_membership",
                            "update_installations_time_checked"}
           /\ writer \notin {conn_ref(last'.t), NoConn}
           => ~last'.res.ok
        /\ last'.op = "store" /\ RowsBefore # {} => ~last'.res.ok
        /\ /\ last'.op = "insert_or_replace_group"
           /\ \E r \in RowsBefore : r.welcome_id = last'.arg[1].welcome_id
           => ~last'.res.ok
        /\ /\ last'.op \in {"update_group_membership",
                            "update_installations_time_checked"}
           /\ MissingTarget
           => ~last'.res.ok
        /\ /\ last'.op = "get_installations_time_checked"
           /\ find(TableBefore, last'.arg[1]) = {}
           => ~last'.res.ok
        /\ /\ last'.op \in {"transaction", "transaction_async"}
           /\ last'.work # None
           /\ ~last'.work[1].ok \/ ~last'.engine.ok
           => ~last'.res.ok ]_vars

\* C30 as amended: an operation that hits a failure returns an error, and
\* get_installations_time_checked of an id without a row returns NotFound;
\* update_group_membership and update_installations_time_checked of an id
\* without a row are no failure: they return Ok and change nothing.
C30_FailuresReported ==
    [][ /\ /\ last'.op \in {"store", "store_or_ignore",
                            "insert_or_replace_group",
                            "update_group_membership",
                            "update_installations_time_checked"}
           /\ writer \notin {conn_ref(last'.t), NoConn}
           => ~last'.res.ok
        /\ last'.op = "store" /\ RowsBefore # {} => ~last'.res.ok
        /\ /\ last'.op = "insert_or_replace_group"
           /\ \E r \in RowsBefore : r.welcome_id = last'.arg[1].welcome_id
           => ~last'.res.ok
        /\ /\ last'.op \in {"update_group_membership",
                            "update_installations_time_checked"}
           /\ writer \in {conn_ref(last'.t), NoConn}
           /\ MissingTarget
           => last'.res = Ok(None) /\ TableAfter = TableBefore
        /\ /\ last'.op = "get_installations_time_checked"
           /\ find(TableBefore, last'.arg[1]) = {}
           => last'.res = Err(NotFound)
        /\ /\ last'.op \in {"transaction", "transaction_async"}
           /\ last'.work # None
           /\ ~last'.work[1].ok \/ ~last'.engine.ok
           => ~last'.res.ok ]_vars

\* an update of the membership state of an id without a row has returned Ok
\* on a table that holds another group
C30_Witness ==
    /\ last.op = "update_group_membership"
    /\ last.res = Ok(None)
    /\ find(Table, last.arg[1].group_id) = {}
    /\ Table # {}

(***************************************************************************)
(* Claims about the construction of a store and its migrations.            *)
(***************************************************************************)
\* the step just taken is a construction by task last'.t with key
\* last'.arg[1]
Constructed == last'.op = "new"
InitCalls == << "NativeDb::new", "validate", "conn", "run_pending_migrations" >>

\* C24: constructing a store on a file created with another key fails with
\* the key-mismatch error: no store is returned, no migration runs and the
\* file is as it was; a construction with the right key that follows
\* finds the identity and the groups of the file.
C24_WrongKeyRejected ==
    [][ /\ /\ Constructed
           /\ file.key \notin {None, Some(last'.arg[1])}
           => /\ last'.res = Err(SqlCipherKeyIncorrect)
              /\ stores'[last'.t] = None
              /\ \A i \in 1..Len(last'.calls) :
                    last'.calls[i] # "run_pending_migrations"
              /\ file' = file
        /\ /\ last.op = "new" /\ last.res = Err(SqlCipherKeyIncorrect)
           /\ Constructed /\ last'.res.ok
           => /\ file.key = Some(last'.arg[1])
              /\ file'.identity = file.identity
              /\ { r.id : r \in file'.groups } = { r.id : r \in file.groups }
        ]_vars

\* a construction with the other key has failed on a file that holds an
\* identity and has migrations pending
C24_Witness ==
    /\ last.op = "new"
    /\ last.res = Err(SqlCipherKeyIncorrect)
    /\ file.identity # None
    /\ pending_migrations(file) # << >>

\* C25: a construction calls validate, then runs the pending migrations,
\* each call once; it returns a store only when both succeeded and then no
\* migration is pending; when validate or a migration fails it returns that
\* error and no store. A statement on the identity table runs only through
\* a store, with no migration pending.
C25_ValidateThenMigrate ==
    [][ /\ Constructed =>
              /\ last'.calls = SubSeq(InitCalls, 1, Len(last'.calls))
              /\ IF last'.res.ok
                 THEN /\ last'.calls = InitCalls
                      /\ stores'[last'.t] # None
                      /\ pending_migrations(file') = << >>
                 ELSE /\ stores'[last'.t] = None
                      /\ \/ /\ last'.res = Err(SqlCipherKeyIncorrect)
                            /\ last'.calls[Len(last'.calls)] = "validate"
                         \/ /\ last'.res = Err(MigrationFailed)
                            /\ last'.calls = InitCalls
        /\ last'.op \in {"store_identity", "fetch_identity"} =>
              /\ stores[last'.t] # None
              /\ pending_migrations(file) = << >>
        ]_vars

\* a construction has failed with the error of a migration after earlier
\* migrations were applied
C25_Witness ==
    /\ last.op = "new"
    /\ last.res = Err(MigrationFailed)
    /\ file.applied # << >>
    /\ stores[last.t] = None

\* C26: the versions recorded as applied only grow, in ascending order and
\* each once; a construction on a file with no migration pending leaves the
\* file as it was.
C26_MigrationsOnce ==
    [][ /\ Len(file'.applied) >= Len(file.applied)
        /\ SubSeq(file'.applied, 1, Len(file.applied)) = file.applied
        /\ \A i \in 1..Len(file'.applied) : file'.applied[i] = i
        /\ Constructed /\ file.key # None /\ pending_migrations(file) = << >>
           => file' = file ]_vars

\* a second store has been constructed on the file while the first is held,
\* the file holding an identity
C26_Witness ==
    /\ last.op = "new"
    /\ last.res.ok
    /\ \A t \in Tasks : stores[t] # None
    /\ file.identity # None

\* C28: release_connection leaves the store without a pool and the file as
\* it was, reconnect leaves the file as it was; a fetch through the store,
\* also on a connection held from before the release, returns the identity
\* of the file.
C28_ReleaseReconnect ==
    [][ /\ last'.op = "release_connection" =>
              /\ last'.res.ok
              /\ ~stores'[last'.t][1].db.pool
              /\ file' = file
        /\ last'.op = "reconnect" =>
              /\ last'.res.ok
              /\ stores'[last'.t][1].db.pool
              /\ file' = file
        /\ last'.op = "fetch_identity" /\ stores[last'.t][1].db.pool =>
              last'.res = Ok(file.identity)
        ]_vars

\* after a release and a reconnect, a fetch on the connection held from
\* before has returned the identity stored before
C28_Witness ==
    /\ last.op = "fetch_identity"
    /\ last.arg = Some("held")
    /\ last.res.ok /\ last.res.val # None
    /\ stores[last.t][1].db.reopened

\* the dm_id the claim gives a DM group of the legacy shape
DerivedDmId(r) == Some("dm:" \o r.dm_inbox_id[1] \o ":" \o file.identity[1])

\* C27: with migrations run one at a time, a DM group written in the legacy
\* shape and the identity stored, the remaining migrations keep the group
\* and give it the dm_id "dm:" + dm_inbox_id + ":" + inbox id; the file ends
\* with the versions a single pass records, and a pass after one more single
\* migration ends where a pass from here ends.
C27_MigrationResumable ==
    [][ /\ { r.id : r \in file.groups } \subseteq { r.id : r \in file'.groups }
        /\ \A r \in file.groups : r.dm_id # None => r \in file'.groups
        /\ ~Has(file, "dm_id") /\ Has(file', "dm_id") /\ file.identity # None
           => \A r \in file.groups : r.dm_inbox_id # None =>
                    GroupRow(r.id, None, DerivedDmId(r)) \in file'.groups
        /\ pending_migrations(file') = << >> =>
                file'.applied = UpTo(Len(MIGRATIONS))
        /\ last'.op = "run_next_migration" =>
                run_pending_migrations(file', 0).file =
                    run_pending_migrations(file, 0).file ]_vars

\* the group written in the legacy shape is loaded with its dm_id after the
\* remaining migrations ran
C27_Witness ==
    /\ last.op = "load_groups"
    /\ pending_migrations(file) = << >>
    /\ \E r \in file.groups : r.dm_id = Some("dm:98765:inbox_id")
    /\ file.identity = Some("inbox_id")

(***************************************************************************)
(* Properties of insert_or_replace_group, of the coordinator's failures    *)
(* and of updates without a target.                                        *)
(***************************************************************************)
\* the rows with the candidate's id whose welcome_id equals the candidate's
\* (Option equality: None equals None), before the step just taken
SameWelcome == { e \in RowsBefore : e.welcome_id = last'.arg[1].welcome_id }

\* C31: insert_or_replace_group fails with Duplicate if and only if a row
\* with the candidate's id exists and its welcome_id equals the candidate's,
\* both absent included (a self-created group on the id of a self-created
\* group fails with Duplicate(WelcomeId(None))); in every other case the
\* statement, once the engine runs it, returns Ok.
C31_DuplicateIff ==
    [][ last'.op = "insert_or_replace_group" =>
          /\ last'.res.err.kind = "Duplicate" =>
                /\ SameWelcome # {}
                /\ last'.res = Err(Duplicate(last'.arg[1].welcome_id))
          /\ writer \in {conn_ref(last'.t), NoConn} =>
                /\ SameWelcome # {} =>
                      last'.res = Err(Duplicate(last'.arg[1].welcome_id))
                /\ SameWelcome = {} => last'.res.ok ]_vars

\* a self-created group was inserted on the id of a stored self-created
\* group and the call failed with Duplicate(WelcomeId(None))
C31_Witness ==
    /\ last.op = "insert_or_replace_group"
    /\ last.arg[1].welcome_id = None
    /\ last.res = Err(Duplicate(None))
    /\ \E existing \in find(View(conn_ref(last.t)), last.arg[1].id) :
          existing.welcome_id = None

\* C32: two connections calling insert_or_replace_group with candidates of
\* the same id at once, outside or inside transactions, under every
\* interleaving of their insert and read-back statements: no view of the
\* table ever holds a second row for an id; a call returns its candidate as
\* newly inserted only when no connection saw a row of the id, so at most
\* one of the calls does; every other call returns the existing row, the
\* Duplicate error or the locked error, never a not-found failure of the
\* read-back; after a call that was not refused exactly one row of the id
\* exists.
C32_ConcurrentInsert ==
    /\ [](\A c \in Conns : UniqueIds(View(c)))
    /\ [][ last'.op = "insert_or_replace_group" =>
            LET c == conn_ref(last'.t)
                group == last'.arg[1]
            IN  /\ last'.res # Err(RowNotFound)
                /\ last'.res \in
                        { Ok(Some(group)), Err(Duplicate(group.welcome_id)),
                          Err(Locked) }
                        \cup { Ok(Some(e)) : e \in RowsBefore }
                /\ last'.res = Ok(Some(group)) =>
                        /\ \A o \in Conns : find(View(o), group.id) = {}
                        /\ RowsAfter = { group }
                /\ last'.res # Err(Locked) => Cardinality(RowsAfter) = 1
                /\ last'.res = Err(Locked) =>
                        /\ writer \notin {c, NoConn}
                        /\ db' = db /\ pending' = pending ]_vars

\* on two connections, a call has found the row of its id and returned
\* Duplicate or the row while the call of the other connection, for the same
\* id, was between its insert and its read-back
C32_Witness ==
    /\ connOf["t1"] # connOf["t2"]
    /\ last.op = "insert_or_replace_group"
    /\ \/ last.res.err.kind = "Duplicate"
       \/ last.res.ok /\ last.res.val # last.arg
    /\ \E u \in Tasks \ {last.t} :
          /\ readback[u] # None
          /\ readback[u][1].id = last.arg[1].id

\* the step just taken is a call of transaction / transaction_async whose
\* begin_transaction the engine failed: a failure reported on BEGIN, or a
\* transaction manager broken before the call
BeginFails ==
    /\ ncalls' = ncalls + 1
    /\ faults' = faults + 1 \/ conn_ref(last'.t) \in broken

\* C33: when begin_transaction fails in transaction or transaction_async,
\* the work closure is never invoked, neither commit nor rollback is issued,
\* the error of begin_transaction is returned to the caller, and the store
\* is unchanged.
C33_BeginFailure ==
    [][ BeginFails =>
          /\ last'.op \in {"transaction", "transaction_async"}
          /\ last'.work = None
          /\ Len(frames'[last'.t]) = Len(frames[last'.t])
          /\ last'.issued = "none"
          /\ last'.res = Err(IF conn_ref(last'.t) \in broken
                             THEN BrokenTransactionManager ELSE BeginFailed)
          /\ db' = db /\ pending' = pending /\ writer' = writer
          /\ saves' = saves /\ broken' = broken ]_vars

\* a call made inside the work of another call has returned the error of
\* its begin_transaction, and the rows written before are still pending
C33_Witness ==
    /\ last.op \in {"transaction", "transaction_async"}
    /\ last.work = None
    /\ last.res = Err(BeginFailed)
    /\ frames[last.t] # << >>
    /\ pending # {}

\* the step just taken is the return of a coordinator call whose work
\* returned Ok and whose commit the engine failed
CommitFails == CoordinatorReturned /\ last.work[1].ok /\ ~last.engine.ok

\* C34: when work returns Ok(value) and the commit fails, transaction /
\* transaction_async returns the error of the commit, never Ok(value); a
\* caller whose outermost call returned Ok(value) finds the rows the
\* transaction wrote in the committed table.
C34_CommitFailure ==
    /\ CommitFails =>
            /\ last.issued = "commit"
            /\ last.res = Err(last.engine.err)
    /\ CoordinatorReturned /\ last.res.ok /\ frames[last.t] = << >> =>
            \A r \in last.ins : r \in db

(***************************************************************************)
(* Properties of the attempts of a retried call.                           *)
(***************************************************************************)
\* task t is inside retryable_transaction_async between two attempts: the
\* last attempt has failed and the loop runs the transaction again
BetweenAttempts(t) == retry[t].active /\ frames[t] = << >> /\ retry[t].runs >= 1

\* C35: in retryable_transaction_async each attempt begins its own
\* transaction and a failed attempt is rolled back before the next begins:
\* between two attempts no transaction is active on the connection and the
\* connection holds no uncommitted write, the rows the failed attempt wrote
\* are read on no connection, and the next attempt begins at depth 1.
C35_AttemptsIsolated ==
    /\ [](\A t \in Tasks : BetweenAttempts(t) =>
            /\ Depth(conn_ref(t)) = 0
            /\ writer # conn_ref(t))
    /\ [](/\ last.op = "transaction_async"
          /\ last.work # None
          /\ BetweenAttempts(last.t)
          => \A r \in last.ins : \A c \in Conns : r \notin View(c))
    /\ [][ \A t \in Tasks :
            retry'[t].runs > retry[t].runs /\ frames'[t] # << >> =>
                Depth(conn_ref(t))' = 1 ]_vars

(***************************************************************************)
(* Properties of updates without a target.                                 *)
(***************************************************************************)
\* the step just taken is one of the two updates
UpdateRan ==
    last'.op \in {"update_group_membership",
                  "update_installations_time_checked"}

\* C36: update_group_membership and update_installations_time_checked on an
\* id without a row return Ok, create no row and leave every row as it was;
\* afterwards find_group of the id is None and
\* get_installations_time_checked of the id fails with NotFound, as does the
\* lookup that follows the update in the run.
C36_UpdateWithoutTarget ==
    /\ [][ UpdateRan /\ find(TableBefore, last'.arg[1].group_id) = {} =>
            /\ last'.res = Ok(None)
            /\ TableAfter = TableBefore
            /\ db' = db
            /\ find_group(TableAfter, last'.arg[1].group_id) = None
            /\ get_installations_time_checked(TableAfter,
                    last'.arg[1].group_id) = Err(NotFound) ]_vars
    /\ [][ /\ last.op \in {"update_group_membership",
                            "update_installations_time_checked"}
           /\ last'.op = "get_installations_time_checked"
           /\ last'.arg = Some(last.arg[1].group_id)
           /\ find_group(db, last.arg[1].group_id) = None
           => last'.res = Err(NotFound) ]_vars

\* in a table that holds two other groups, the time of the last check was
\* updated for an id without a row: the call returned Ok and the id still
\* has no row
C36_Witness ==
    /\ last.op = "update_installations_time_checked"
    /\ last.res = Ok(None)
    /\ find_group(db, last.arg[1].group_id) = None
    /\ Cardinality(db) = 2

(***************************************************************************)
(* Properties of the store of a Vec.                                       *)
(***************************************************************************)
\* the step just taken stored, or failed to store, an item of a Vec
ItemRan == last'.op \in {"store_item", "store_vec"}

\* the item of the Vec that is next for task t
NextItem(t) == IF storing[t] = None THEN 1 ELSE storing[t][1].at

\* C37: the store of a Vec inserts the items in order and stops at the first
\* item that fails, returning its error; outside a transaction the items
\* before it remain stored and the failing step and the call store nothing
\* more; inside transaction(work) that propagates the error none of the
\* items can be read once the call has returned.
C37_VecStore ==
    /\ [][ ItemRan =>
            LET t == last'.t
                c == conn_ref(t)
                items == last'.arg[1].items
                at == last'.arg[1].at
            IN  /\ at = NextItem(t)
                /\ last'.res.ok =>
                        /\ items[at] \in ViewAfter(c)
                        /\ (last'.op = "store_vec") = (at = Len(items))
                /\ ~last'.res.ok =>
                        /\ last'.op = "store_vec"
                        /\ storing'[t] = None
                        /\ last'.res.err \in {UniqueViolation, Locked}
                        /\ db' = db /\ ViewAfter(c) = View(c)
                /\ frames[t] = << >> =>
                        \A j \in 1..(at - 1) : items[j] \in ViewAfter(c) ]_vars
    /\ [](/\ last.op = "transaction"
          /\ last.work \in {Some(Err(UniqueViolation)), Some(Err(Locked))}
          => \A r \in last.ins : \A c \in Conns : r \notin View(c))

====
